---- MODULE Spec2Model ----
(***************************************************************************)
(* A model of the simplicity-tools registry (simplicity_tools/core.py),    *)
(* its downloader (downloader.py) and platform detector (platform.py).     *)
(*                                                                         *)
(* One registry instance works on a tools root directory.  The state is    *)
(* the registry's fields (the path cache, the memoized URL catalog), the   *)
(* part of the host the code reads and writes (the per-tool subdirectory,  *)
(* archives left in the tools root, the system search path) and a record   *)
(* of what the last call did and returned.                                 *)
(*                                                                         *)
(* Filesystem abstraction.  Below <root>/<tool> a file with the tool's     *)
(* executable name can sit at two places: directly in the directory        *)
(* ("top") or inside a nested directory ("bin").  Each is "absent",        *)
(* "plain" (exists, no execute permission) or "exec".  Files with other    *)
(* names are not represented; they never match find_executable_in_dir.     *)
(***************************************************************************)
EXTENDS Integers, Sequences, FiniteSets, TLC

VARIABLES
    system,        \* PlatformDetector.system
    machine,       \* PlatformDetector.machine
    resource,      \* state of the bundled config/tool_urls.json on disk
    url_config,    \* PlatformDetector._url_config ("unloaded" models None)
    tool_paths,    \* SimplicityTools._tool_paths
    tool_dirs,     \* <root>/<subdir> of every managed tool, on disk
    archives,      \* file names of archives present in the tools root
    sys_path,      \* which managed executables the system search path holds
    last,          \* what the last call on the registry did and returned
    installed_ret, \* history: path returned by the last successful install_tool
                   \* of a tool on this instance since its last uninstall_tool
    ext,           \* number of changes made by other processes so far
    calls,         \* install_tool calls of other registries over the same
                   \* tools root that are under way, and where each stands
    holder,        \* whose data each archive in the tools root holds
    downloaded_to  \* history: path returned by the last install_tool of a
                   \* tool that succeeded by download, on any registry over
                   \* the tools root, until uninstall_tool of the tool is
                   \* called or another process changes its subdirectory

vars == <<system, machine, resource, url_config, tool_paths, tool_dirs,
          archives, sys_path, last, installed_ret, ext, calls, holder,
          downloaded_to>>

\* Bound on the number of changes other processes make to the host.
MaxExternal == 2

----------------------------------------------------------------------------
(* Names and values *)

Tools == {"slc-cli", "zap"}
ToolOrder == <<"slc-cli", "zap">>

NoPath == <<"-", "-">>
NoVersion == "None"
DirPath(t, loc) == <<t, loc>>
WhichPath(t) == <<"PATH", t>>

EmptyDir == [exists |-> FALSE, top |-> "absent", bin |-> "absent"]

----------------------------------------------------------------------------
(* platform.py *)

\* _normalize_architecture taking every ARM machine string newer than
\* armv7l for a 32-bit one.
_normalize_architecture_armv8l_as_arm32(m) ==
    CASE m = "x86_64"  -> "x64"
      [] m = "amd64"   -> "x64"
      [] m = "i386"    -> "x86"
      [] m = "i686"    -> "x86"
      [] m = "aarch64" -> "arm64"
      [] m = "arm64"   -> "arm64"
      [] m = "armv7l"  -> "arm32"
      [] m = "armv8l"  -> "arm32"
      [] OTHER         -> m

_normalize_architecture(m) ==
    CASE m = "x86_64"  -> "x64"
      [] m = "amd64"   -> "x64"
      [] m = "i386"    -> "x86"
      [] m = "i686"    -> "x86"
      [] m = "aarch64" -> "arm64"
      [] m = "arm64"   -> "arm64"
      [] m = "armv7l"  -> "arm32"
      [] m = "armv8l"  -> "arm64"
      [] OTHER         -> m

architecture == _normalize_architecture(machine)

supported_platforms ==
    { <<"windows", "x64">>, <<"windows", "x86">>, <<"darwin", "x64">>,
      <<"darwin", "arm64">>, <<"linux", "x64">>, <<"linux", "arm64">>,
      <<"linux", "arm32">> }

\* is_supported looking at the architecture alone.
is_supported_any_system == architecture \in {"x64", "x86", "arm64", "arm32"}

is_supported == <<system, architecture>> \in supported_platforms

\* get_platform_info: the dictionary returned, without 'python_version'.
get_platform_info ==
    [system |-> system, machine |-> machine, architecture |-> architecture]

\* os.name = 'nt' on a Windows host.
os_name_nt == system = "windows"

\* A URL is the sequence of its '/'-separated segments; a segment is the
\* sequence of its '.'-separated parts.
SilabsUrl(name) ==
    << <<"https:">>, <<>>, <<"www", "silabs", "com">>, <<"documents">>,
       <<"login">>, <<"software">>, <<name, "zip">> >>

ZapUrl(name) ==
    << <<"https:">>, <<>>, <<"github", "com">>, <<"project-chip">>, <<"zap">>,
       <<"releases">>, <<"download">>, <<"v2025", "05", "07">>, <<name, "zip">> >>

\* A catalog maps a tool to the sequence of its versions, in file order; a
\* version holds its label and the URL of every platform key it lists.
_get_fallback_urls ==
    [t \in Tools |->
        IF t = "slc-cli"
        THEN << [version |-> "latest",
                 urls |-> [k \in supported_platforms |->
                    CASE k[1] = "windows" -> SilabsUrl("slc_cli_windows")
                      [] k = <<"darwin", "x64">> -> SilabsUrl("slc_cli_mac")
                      [] k = <<"darwin", "arm64">> -> SilabsUrl("slc_cli_mac_aarch64")
                      [] OTHER -> SilabsUrl("slc_cli_linux")]] >>
        ELSE << [version |-> "v2025.05.07",
                 urls |-> [k \in supported_platforms |->
                    CASE k = <<"windows", "x64">> -> ZapUrl("zap-windows-x64")
                      [] k = <<"windows", "x86">> -> ZapUrl("zap-windows-x86")
                      [] k = <<"darwin", "x64">> -> ZapUrl("zap-mac-x64")
                      [] k = <<"darwin", "arm64">> -> ZapUrl("zap-mac-arm64")
                      [] k = <<"linux", "x64">> -> ZapUrl("zap-linux-x64")
                      [] k = <<"linux", "arm64">> -> ZapUrl("zap-linux-arm64")
                      [] OTHER -> ZapUrl("zap-linux-arm32")]] >>]

\* An URL of a bundled resource, ending in the file name given by its parts.
ExampleUrl(name) == << <<"https:">>, <<>>, <<"example", "com">>, name >>

\* What config/tool_urls.json can be: missing, present but unreadable, not
\* JSON, or one of two well-formed tables.  "partial" lists two versions of
\* slc-cli (the first is not "latest"; "latest" has no Windows build) and
\* does not list zap; "sparse" lists slc-cli without any version, and zap
\* with archives of other formats.
ConfigFiles == {"partial", "sparse"}
Resources == {"missing", "unreadable", "malformed"} \cup ConfigFiles

partial_config ==
    [t \in {"slc-cli"} |->
        << [version |-> "v2025.05.07",
            urls |-> [k \in { <<"linux", "x64">>, <<"windows", "x64">> } |->
                IF k[1] = "linux" THEN ExampleUrl(<<"slc", "tar", "gz">>)
                ELSE ExampleUrl(<<"slc", "tgz">>)]],
           [version |-> "latest",
            urls |-> [k \in { <<"linux", "x64">> } |->
                ExampleUrl(<<"slc", "tar">>)]] >>]

sparse_config ==
    [t \in Tools |->
        IF t = "slc-cli" THEN << >>
        ELSE << [version |-> "v2025.05.07",
                 urls |-> [k \in { <<"linux", "x64">>, <<"windows", "x64">> } |->
                    IF k[1] = "linux" THEN ExampleUrl(<<"zap", "7z">>)
                    ELSE ExampleUrl(<<"zap">>)]] >>]

\* The catalog a loaded _url_config stands for.
Catalog(cfg) ==
    CASE cfg = "partial" -> partial_config
      [] cfg = "sparse" -> sparse_config
      [] OTHER -> _get_fallback_urls

\* _load_url_config: [cfg, exc].  Reads the resource once; a missing or
\* malformed resource gives the built-in table; any other error of open()
\* is not caught.  cfg is the _url_config afterwards.
_load_url_config(cfg) ==
    IF cfg # "unloaded" THEN [cfg |-> cfg, exc |-> "none"]
    ELSE CASE resource \in {"missing", "malformed"} -> [cfg |-> "fallback", exc |-> "none"]
           [] resource = "unreadable" -> [cfg |-> cfg, exc |-> "PermissionError"]
           [] OTHER -> [cfg |-> resource, exc |-> "none"]

\* The labels, the last version of the catalog first.
VersionLabels_reversed(entries) ==
    [i \in 1..Len(entries) |-> entries[Len(entries) + 1 - i].version]

VersionLabels(entries) == [i \in 1..Len(entries) |-> entries[i].version]

\* The membership test looking at the first element only.
InSeq_first_only(x, s) == Len(s) > 0 /\ s[1] = x

InSeq(x, s) == \E i \in 1..Len(s) : s[i] = x

VersionEntry(entries, v) ==
    entries[CHOOSE i \in 1..Len(entries) : entries[i].version = v]

\* Lines 104-123 of get_tool_urls, given what _load_url_config did (ld).
get_tool_urls_lookup(ld, tool_name, version) ==
    LET cat == Catalog(ld.cfg)
        platform_key == <<system, architecture>>
        got == [cfg |-> ld.cfg, exc |-> "none", msg |-> "-",
                url |-> <<>>, filename |-> <<>>]
    IN  IF ld.exc # "none" THEN [got EXCEPT !.exc = ld.exc]
        ELSE IF tool_name \notin DOMAIN cat
        THEN [got EXCEPT !.exc = "ValueError", !.msg = "Unknown tool"]
        ELSE IF ~InSeq(version, VersionLabels(cat[tool_name]))
        THEN [got EXCEPT !.exc = "ValueError", !.msg = "Unknown version"]
        ELSE LET urls == VersionEntry(cat[tool_name], version).urls
             IN  IF platform_key \notin DOMAIN urls
                 THEN [got EXCEPT !.exc = "PlatformNotSupportedError",
                                  !.msg = "not supported for tool and version"]
                 ELSE [got EXCEPT !.url = urls[platform_key],
                         !.filename = urls[platform_key][Len(urls[platform_key])]]

\* get_tool_urls without the check of the allow-list.
get_tool_urls_without_allow_list(cfg, tool_name, version) ==
    get_tool_urls_lookup(_load_url_config(cfg), tool_name, version)

\* get_tool_urls: [cfg, exc, msg, url, filename]; cfg is the _url_config
\* afterwards, msg tells the errors of one type apart.
get_tool_urls(cfg, tool_name, version) ==
    IF ~is_supported
    THEN [cfg |-> cfg, exc |-> "PlatformNotSupportedError",
          msg |-> "platform not supported", url |-> <<>>, filename |-> <<>>]
    ELSE get_tool_urls_lookup(_load_url_config(cfg), tool_name, version)

----------------------------------------------------------------------------
(* What the host does during one install_tool call that reaches the         *)
(* download: the outcome of every step the code cannot decide itself.       *)

DefaultEnv ==
    [dl |-> "ok", mkdir_ok |-> TRUE, status |-> "ok", puts |-> {"top"},
     chmod_ok |-> TRUE, unlink_ok |-> TRUE]

\* Which executable-named files an archive can hold.
Puts == { {}, {"top"}, {"bin"} }

Envs ==
    { [DefaultEnv EXCEPT !.dl = x] :
        x \in {"RequestException", "MidStreamRequestException", "MidStreamOSError"} }
    \cup { [DefaultEnv EXCEPT !.mkdir_ok = FALSE] }
    \cup { [DefaultEnv EXCEPT !.puts = p, !.chmod_ok = c, !.unlink_ok = u] :
             p \in Puts, c \in BOOLEAN, u \in BOOLEAN }
    \cup { [DefaultEnv EXCEPT !.status = s, !.puts = p, !.unlink_ok = u] :
             s \in {"ReadError", "OSError"}, p \in Puts, u \in BOOLEAN }

----------------------------------------------------------------------------
(* downloader.py *)

\* download_file: the request fails before the destination is opened, or the
\* transport or a write fails in the middle of the stream (the destination
\* file then exists), or the download succeeds.  Only requests.RequestException
\* becomes DownloadError.
download_file(arch, filename, e) ==
    CASE e.dl = "ok" -> [exc |-> "none", archives |-> arch \cup {filename}]
      [] e.dl = "RequestException" -> [exc |-> "DownloadError", archives |-> arch]
      [] e.dl = "MidStreamOSError" -> [exc |-> "OSError", archives |-> arch \cup {filename}]
      [] OTHER -> [exc |-> "DownloadError", archives |-> arch \cup {filename}]

\* Path.suffix and Path.stem of a file name given by its '.'-separated parts.
suffix(filename) == IF Len(filename) >= 2 THEN filename[Len(filename)] ELSE ""
stem(filename) == IF Len(filename) >= 2 THEN SubSeq(filename, 1, Len(filename) - 1) ELSE filename

\* The dispatch of extract_archive taking .tgz for a gzip-compressed tar.
ArchiveFormat_with_tgz(filename) ==
    CASE suffix(filename) = "zip" -> "zip"
      [] suffix(filename) = "gz" /\ Len(stem(filename)) >= 2
            /\ stem(filename)[Len(stem(filename))] = "tar" -> "tar.gz"
      [] suffix(filename) = "tgz" -> "tar.gz"
      [] suffix(filename) = "tar" -> "tar"
      [] OTHER -> "unsupported"

\* The branch extract_archive takes.
ArchiveFormat(filename) ==
    CASE suffix(filename) = "zip" -> "zip"
      [] suffix(filename) = "gz" /\ Len(stem(filename)) >= 2
            /\ stem(filename)[Len(stem(filename))] = "tar" -> "tar.gz"
      [] suffix(filename) = "tar" -> "tar"
      [] OTHER -> "unsupported"

\* A member written over `cur`: a new file has no execute permission, an
\* existing one is truncated and keeps its mode.
Written(cur) == IF cur = "absent" THEN "plain" ELSE cur

\* extract_archive: [exc, dir, format]; format is the archive library run
\* ("-" when none was).  BadZipFile and tarfile.ReadError become
\* InstallationError; any other exception of the archive library propagates.
\* The members e.puts are on disk afterwards in each case.
extract_archive(filename, d, e) ==
    IF ArchiveFormat(filename) = "unsupported"
    THEN [exc |-> "InstallationError", dir |-> d, format |-> "-"]
    ELSE LET out == [d EXCEPT !.top = IF "top" \in e.puts THEN Written(@) ELSE @,
                              !.bin = IF "bin" \in e.puts THEN Written(@) ELSE @]
         IN  [exc |-> CASE e.status = "ok" -> "none"
                        [] e.status = "ReadError" -> "InstallationError"
                        [] OTHER -> "OSError",
              dir |-> out,
              format |-> ArchiveFormat(filename)]

\* find_executable_in_dir: os.walk visits the directory itself first.
find_executable_in_dir(d, t) ==
    IF d.top # "absent" THEN DirPath(t, "top")
    ELSE IF d.bin # "absent" THEN DirPath(t, "bin")
    ELSE NoPath

\* make_executable on the file at `loc` of directory d: [exc, dir]
make_executable(d, loc, e) ==
    IF ~os_name_nt
    THEN (IF e.chmod_ok
          THEN [exc |-> "none", dir |-> [d EXCEPT ![loc] = "exec"]]
          ELSE [exc |-> "InstallationError", dir |-> d])
    ELSE [exc |-> "none", dir |-> d]

\* cleanup_archive without its except clause.
cleanup_archive_unguarded(arch, filename, e) ==
    IF filename \notin arch THEN [archives |-> arch, exc |-> "none"]
    ELSE IF e.unlink_ok THEN [archives |-> arch \ {filename}, exc |-> "none"]
    ELSE [archives |-> arch, exc |-> "PermissionError"]

\* cleanup_archive: [archives, exc].  The OSError of a failing unlink
\* (PermissionError, say) is caught and dropped.
cleanup_archive(arch, filename, e) ==
    IF filename \in arch /\ e.unlink_ok
    THEN [archives |-> arch \ {filename}, exc |-> "none"]
    ELSE [archives |-> arch, exc |-> "none"]

\* download_and_extract_tool on the tools root (dirs, arch):
\* [exc, path, dirs, archives, downloaded, extracted]; downloaded tells that
\* download_file returned, extracted that an archive library was run.
download_and_extract_tool(dirs, arch, filename, tool_name, e) ==
    LET out(exc, path, d, archs, downloaded, format) ==
            [exc |-> exc, path |-> path, dirs |-> [dirs EXCEPT ![tool_name] = d],
             archives |-> archs, downloaded |-> downloaded,
             extracted |-> format # "-", format |-> format]
        \* lines 108-126: the try block, given what extract_archive did (ex)
        \* and what cleanup_archive does in the finally block (cleaned); an
        \* exception that leaves the finally block takes the place of the
        \* exception or the return value of the try block
        try(ex, cleaned) ==
            LET found == find_executable_in_dir(ex.dir, tool_name)
                ends(exc, path, d) ==
                    IF cleaned.exc # "none"
                    THEN out(cleaned.exc, NoPath, d, cleaned.archives, TRUE, ex.format)
                    ELSE out(exc, path, d, cleaned.archives, TRUE, ex.format)
                made(mk) ==
                    IF mk.exc # "none"
                    THEN ends(mk.exc, NoPath, mk.dir)
                    ELSE ends("none", found, mk.dir)
            IN  IF ex.exc # "none"
                THEN ends(ex.exc, NoPath, ex.dir)
                ELSE IF found = NoPath
                THEN ends("InstallationError", NoPath, ex.dir)
                ELSE made(make_executable(ex.dir, found[2], e))
        \* lines 104-126, given what download_file did (dl)
        downloaded(dl) ==
            IF dl.exc # "none"
            THEN out(dl.exc, NoPath, dirs[tool_name], dl.archives, FALSE, "-")
            ELSE IF ~dirs[tool_name].exists /\ ~e.mkdir_ok
            THEN \* extract_dir.mkdir raises before the try block is entered
                 out("OSError", NoPath, dirs[tool_name], dl.archives, TRUE, "-")
            ELSE try(extract_archive(filename, [dirs[tool_name] EXCEPT !.exists = TRUE], e),
                     cleanup_archive(dl.archives, filename, e))
    IN  downloaded(download_file(arch, filename, e))

----------------------------------------------------------------------------
(* core.py.  The operators work on a record W of everything a call can      *)
(* change: [tool_paths, url_config, tool_dirs, archives].                   *)

World ==
    [tool_paths |-> tool_paths, url_config |-> url_config,
     tool_dirs |-> tool_dirs, archives |-> archives]

\* Every tool configured with the subdirectory of the first one.
subdir_shared(t) == ToolOrder[1]

\* self.tools[t]['subdir']
subdir(t) == t

\* Path.exists() of a path below a tool's subdirectory.
PathExists(dirs, p) == p # NoPath /\ dirs[p[1]][p[2]] # "absent"

\* shutil.which finding nothing on any search path.
which_finds_nothing(t) == NoPath

\* shutil.which(executable_name)
which(t) == IF sys_path[t] THEN WhichPath(t) ELSE NoPath

\* _get_tool_path asking the search path before the tools directory.
_get_tool_path_search_path_first(W, tool_name) ==
    IF tool_name \notin Tools
    THEN [w |-> W, exc |-> "ValueError", path |-> NoPath, probed |-> FALSE]
    ELSE IF W.tool_paths[tool_name] # NoPath
    THEN [w |-> W, exc |-> "none", path |-> W.tool_paths[tool_name], probed |-> FALSE]
    ELSE
    LET tool_dir == W.tool_dirs[subdir(tool_name)]
        executable_path == IF tool_dir.exists
                           THEN find_executable_in_dir(tool_dir, tool_name)
                           ELSE NoPath
    IN  IF which(tool_name) # NoPath
        THEN [w |-> [W EXCEPT !.tool_paths[tool_name] = which(tool_name)],
              exc |-> "none", path |-> which(tool_name), probed |-> TRUE]
        ELSE IF executable_path # NoPath /\ PathExists(W.tool_dirs, executable_path)
        THEN [w |-> [W EXCEPT !.tool_paths[tool_name] = executable_path],
              exc |-> "none", path |-> executable_path, probed |-> TRUE]
        ELSE [w |-> W, exc |-> "none", path |-> NoPath, probed |-> TRUE]

\* _get_tool_path without the look into the cache.
_get_tool_path_uncached(W, tool_name) ==
    IF tool_name \notin Tools
    THEN [w |-> W, exc |-> "ValueError", path |-> NoPath, probed |-> FALSE]
    ELSE
    LET tool_dir == W.tool_dirs[subdir(tool_name)]
        executable_path == IF tool_dir.exists
                           THEN find_executable_in_dir(tool_dir, tool_name)
                           ELSE NoPath
    IN  IF executable_path # NoPath /\ PathExists(W.tool_dirs, executable_path)
        THEN [w |-> [W EXCEPT !.tool_paths[tool_name] = executable_path],
              exc |-> "none", path |-> executable_path, probed |-> TRUE]
        ELSE IF which(tool_name) # NoPath
        THEN [w |-> [W EXCEPT !.tool_paths[tool_name] = which(tool_name)],
              exc |-> "none", path |-> which(tool_name), probed |-> TRUE]
        ELSE [w |-> W, exc |-> "none", path |-> NoPath, probed |-> TRUE]

\* _get_tool_path: [w, exc, path, probed]; probed tells that the disk or the
\* search path was looked at.
_get_tool_path(W, tool_name) ==
    IF tool_name \notin Tools
    THEN [w |-> W, exc |-> "ValueError", path |-> NoPath, probed |-> FALSE]
    ELSE IF W.tool_paths[tool_name] # NoPath
    THEN [w |-> W, exc |-> "none", path |-> W.tool_paths[tool_name], probed |-> FALSE]
    ELSE
    LET tool_dir == W.tool_dirs[subdir(tool_name)]
        executable_path == IF tool_dir.exists
                           THEN find_executable_in_dir(tool_dir, tool_name)
                           ELSE NoPath
    IN  IF executable_path # NoPath /\ PathExists(W.tool_dirs, executable_path)
        THEN [w |-> [W EXCEPT !.tool_paths[tool_name] = executable_path],
              exc |-> "none", path |-> executable_path, probed |-> TRUE]
        ELSE IF which(tool_name) # NoPath
        THEN [w |-> [W EXCEPT !.tool_paths[tool_name] = which(tool_name)],
              exc |-> "none", path |-> which(tool_name), probed |-> TRUE]
        ELSE [w |-> W, exc |-> "none", path |-> NoPath, probed |-> TRUE]

\* is_tool_installed: [w, exc, value, path, probed]; path is what the
\* _get_tool_path call underneath returned.
is_tool_installed(W, tool_name) ==
    LET is_not_none(r) ==
            [w |-> r.w, exc |-> r.exc, value |-> (r.exc = "none" /\ r.path # NoPath),
             path |-> r.path, probed |-> r.probed]
    IN  is_not_none(_get_tool_path(W, tool_name))

\* get_tool_path handing on whatever _get_tool_path returned.
get_tool_path_or_none(W, tool_name) == _get_tool_path(W, tool_name)

\* get_tool_path: [w, exc, path, probed]
get_tool_path(W, tool_name) ==
    LET raise_if_none(r) ==
            IF r.exc = "none" /\ r.path = NoPath
            THEN [r EXCEPT !.exc = "ToolNotFoundError"]
            ELSE r
    IN  raise_if_none(_get_tool_path(W, tool_name))

\* The except clause letting the exception pass as it is.
wrapped_reraised(e) == [exc |-> e, cause |-> "none"]

\* except Exception as e: raise InstallationError(...): the new exception has
\* the one being handled as its __context__.
wrapped(e) == [exc |-> "InstallationError", cause |-> e]

\* The cache entry written before the download, with the path at which the
\* executable is expected.
cached_early(w, tool_name, r) ==
    [w EXCEPT !.tool_paths[tool_name] =
        IF r.exc = "none" THEN r.path ELSE DirPath(tool_name, "top")]

\* Lines 149-157 of install_tool: self._tool_paths[tool_name] is assigned
\* when download_and_extract_tool has returned (r), not when it has raised.
cached(w, tool_name, r) ==
    IF r.exc = "none" THEN [w EXCEPT !.tool_paths[tool_name] = r.path] ELSE w

\* install_tool: [w, exc, cause, path, requested, downloaded, extracted,
\* format, filename]; requested tells that a network request was made for
\* filename, cause is the exception that was being handled when exc was
\* raised (its __context__).
install_tool(W, tool_name, version, e) ==
    LET fail(w, x) == [w |-> w, exc |-> x, cause |-> "none", path |-> NoPath,
                       requested |-> FALSE, downloaded |-> FALSE,
                       extracted |-> FALSE, format |-> "-", filename |-> <<>>]
    IN
    IF ~is_supported THEN fail(W, "PlatformNotSupportedError")
    ELSE IF tool_name \notin Tools THEN fail(W, "ValueError")
    ELSE
    LET ld == _load_url_config(W.url_config)
        W1 == [W EXCEPT !.url_config = ld.cfg]
        cat == Catalog(W1.url_config)
    IN
    IF ld.exc # "none" THEN fail(W, ld.exc)
    ELSE IF tool_name \notin DOMAIN cat THEN fail(W1, "ValueError")
    ELSE
    LET available_versions == VersionLabels(cat[tool_name])
    IN
    IF version = NoVersion /\ Len(available_versions) = 0 THEN fail(W1, "IndexError")
    ELSE
    LET ver == IF version = NoVersion THEN available_versions[1] ELSE version
        \* lines 155-161, given what download_and_extract_tool did (r) to w
        finish(w, filename, r) ==
            IF r.exc # "none"
            THEN [w |-> [cached(w, tool_name, r) EXCEPT
                            !.tool_dirs = r.dirs, !.archives = r.archives],
                  exc |-> wrapped(r.exc).exc, cause |-> wrapped(r.exc).cause,
                  path |-> NoPath,
                  requested |-> TRUE, downloaded |-> r.downloaded,
                  extracted |-> r.extracted, format |-> r.format,
                  filename |-> filename]
            ELSE [w |-> [cached(w, tool_name, r) EXCEPT
                            !.tool_dirs = r.dirs, !.archives = r.archives],
                  exc |-> "none", cause |-> "none", path |-> r.path,
                  requested |-> TRUE, downloaded |-> r.downloaded,
                  extracted |-> r.extracted, format |-> r.format,
                  filename |-> filename]
        \* line 136, given what get_tool_path returned
        already(got) ==
            [w |-> got.w, exc |-> "none", cause |-> "none", path |-> got.path,
             requested |-> FALSE, downloaded |-> FALSE, extracted |-> FALSE,
             format |-> "-", filename |-> <<>>]
        \* lines 134-154, given what is_tool_installed returned
        check(inst) ==
            IF inst.value
            THEN already(get_tool_path(inst.w, tool_name))
            ELSE
            LET download_info == get_tool_urls(W1.url_config, tool_name, ver)
            IN  IF download_info.exc # "none"
                THEN [fail(inst.w, wrapped(download_info.exc).exc) EXCEPT
                         !.cause = wrapped(download_info.exc).cause]
                ELSE finish(inst.w, download_info.filename,
                            download_and_extract_tool(inst.w.tool_dirs, inst.w.archives,
                                                      download_info.filename, tool_name, e))
    IN
    IF ~InSeq(ver, available_versions) THEN fail(W1, "ValueError")
    ELSE check(is_tool_installed(W1, tool_name))

\* Which deletions of uninstall_tool can fail in directory d.
Failures(d) ==
    { f \in [top : BOOLEAN, bin : BOOLEAN, dir : BOOLEAN] :
        /\ f.top => d.top # "absent"
        /\ f.bin => d.bin # "absent"
        /\ f.dir => d.exists }

\* uninstall_tool giving up the walk at the first deletion that fails (the
\* walk is bottom-up: the nested file comes before the one at the top).
uninstall_tool_gives_up(W, tool_name, f) ==
    IF tool_name \notin Tools THEN [w |-> W, exc |-> "ValueError", warnings |-> {}]
    ELSE
    LET d == W.tool_dirs[subdir(tool_name)]
        bin1 == IF f.bin THEN d.bin ELSE "absent"
        top1 == IF f.top \/ f.bin THEN d.top ELSE "absent"
        d1 == IF d.exists
              THEN [exists |-> (top1 # "absent" \/ bin1 # "absent" \/ f.dir),
                    top |-> top1, bin |-> bin1]
              ELSE d
    IN  [w |-> [W EXCEPT !.tool_dirs[subdir(tool_name)] = d1,
                         !.tool_paths[tool_name] = NoPath],
         exc |-> "none",
         warnings |-> {loc \in {"top", "bin"} : d1[loc] # "absent"}
                      \cup (IF d1.exists THEN {"dir"} ELSE {})]

\* uninstall_tool clearing the cache entry only when the directory is gone.
uninstall_tool_keeps_entry(W, tool_name, f) ==
    IF tool_name \notin Tools THEN [w |-> W, exc |-> "ValueError", warnings |-> {}]
    ELSE
    LET d == W.tool_dirs[subdir(tool_name)]
        top1 == IF f.top THEN d.top ELSE "absent"
        bin1 == IF f.bin THEN d.bin ELSE "absent"
        d1 == IF d.exists
              THEN [exists |-> (top1 # "absent" \/ bin1 # "absent" \/ f.dir),
                    top |-> top1, bin |-> bin1]
              ELSE d
    IN  [w |-> [W EXCEPT !.tool_dirs[subdir(tool_name)] = d1,
                         !.tool_paths[tool_name] = IF d1.exists THEN @ ELSE NoPath],
         exc |-> "none",
         warnings |-> {loc \in {"top", "bin"} : d1[loc] # "absent"}
                      \cup (IF d1.exists THEN {"dir"} ELSE {})]

\* uninstall_tool: [w, exc, warnings].  os.remove of a file fails where f
\* says so; a directory that still holds an entry cannot be removed; f.dir is
\* a failing os.rmdir of an empty directory.  warnings names the entries a
\* "Warning: Could not remove ..." line was printed for.
uninstall_tool(W, tool_name, f) ==
    IF tool_name \notin Tools THEN [w |-> W, exc |-> "ValueError", warnings |-> {}]
    ELSE
    LET d == W.tool_dirs[subdir(tool_name)]
        top1 == IF f.top THEN d.top ELSE "absent"
        bin1 == IF f.bin THEN d.bin ELSE "absent"
        d1 == IF d.exists
              THEN [exists |-> (top1 # "absent" \/ bin1 # "absent" \/ f.dir),
                    top |-> top1, bin |-> bin1]
              ELSE d
    IN  [w |-> [W EXCEPT !.tool_dirs[subdir(tool_name)] = d1,
                         !.tool_paths[tool_name] = NoPath],
         exc |-> "none",
         warnings |-> {loc \in {"top", "bin"} : d1[loc] # "absent"}
                      \cup (IF d1.exists THEN {"dir"} ELSE {})]

NoneInstalled == [t \in Tools |-> NoPath]

NotCalled == [t \in Tools |-> "-"]

\* install_all_tools, es[t] being what the host does during the install of t:
\* [w, exc, installed_tools, excs, attempted, requested, downloaded, extracted];
\* installed_tools is the mapping returned, excs[t] how the install_tool call
\* for t ended ("-" when there was none), attempted the tools it was called for.
\* install_all_tools without the try block around install_tool.
RECURSIVE install_all_loop_unguarded(_, _, _, _)
install_all_loop_unguarded(W, i, es, acc) ==
    IF i > Len(ToolOrder) THEN [acc EXCEPT !.w = W]
    ELSE LET tool_name == ToolOrder[i]
             record(r) == [acc EXCEPT
                   !.installed_tools[tool_name] = IF r.exc = "none" THEN r.path ELSE @,
                   !.attempted = @ \cup {tool_name},
                   !.excs[tool_name] = r.exc,
                   !.requested = IF r.requested THEN @ \cup {tool_name} ELSE @,
                   !.downloaded = IF r.downloaded THEN @ \cup {tool_name} ELSE @,
                   !.extracted = IF r.extracted THEN @ \cup {tool_name} ELSE @]
             installed(r) ==
                 IF r.exc # "none" THEN [record(r) EXCEPT !.w = r.w, !.exc = r.exc]
                 ELSE install_all_loop_unguarded(r.w, i + 1, es, record(r))
         IN  installed(install_tool(W, tool_name, NoVersion, es[tool_name]))

RECURSIVE install_all_loop(_, _, _, _)
install_all_loop(W, i, es, acc) ==
    IF i > Len(ToolOrder) THEN [acc EXCEPT !.w = W]
    ELSE LET tool_name == ToolOrder[i]
             record(r) == [acc EXCEPT
                   !.installed_tools[tool_name] = IF r.exc = "none" THEN r.path ELSE @,
                   !.attempted = @ \cup {tool_name},
                   !.excs[tool_name] = r.exc,
                   !.requested = IF r.requested THEN @ \cup {tool_name} ELSE @,
                   !.downloaded = IF r.downloaded THEN @ \cup {tool_name} ELSE @,
                   !.extracted = IF r.extracted THEN @ \cup {tool_name} ELSE @]
             \* either branch of the try statement goes on with the next tool
             installed(r) == install_all_loop(r.w, i + 1, es, record(r))
         IN  installed(install_tool(W, tool_name, NoVersion, es[tool_name]))

install_all_tools(W, es) ==
    install_all_loop(W, 1, es,
        [w |-> W, exc |-> "none", installed_tools |-> NoneInstalled,
         excs |-> NotCalled, attempted |-> {}, requested |-> {},
         downloaded |-> {}, extracted |-> {}])

\* ensure_tools_installed: the same record; exc is the exception that left
\* the loop, installed_tools what the install_tool calls made returned.
\* ensure_tools_installed with a try block around install_tool.
RECURSIVE ensure_loop_guarded(_, _, _, _)
ensure_loop_guarded(W, i, es, acc) ==
    IF i > Len(ToolOrder) THEN [acc EXCEPT !.w = W]
    ELSE LET tool_name == ToolOrder[i]
             record(r) == [acc EXCEPT
                   !.installed_tools[tool_name] = IF r.exc = "none" THEN r.path ELSE @,
                   !.attempted = @ \cup {tool_name},
                   !.excs[tool_name] = r.exc,
                   !.requested = IF r.requested THEN @ \cup {tool_name} ELSE @,
                   !.downloaded = IF r.downloaded THEN @ \cup {tool_name} ELSE @,
                   !.extracted = IF r.extracted THEN @ \cup {tool_name} ELSE @]
             installed(r) == ensure_loop_guarded(r.w, i + 1, es, record(r))
             checked(inst) ==
                 IF inst.value THEN ensure_loop_guarded(inst.w, i + 1, es, acc)
                 ELSE installed(install_tool(inst.w, tool_name, NoVersion, es[tool_name]))
         IN  checked(is_tool_installed(W, tool_name))

RECURSIVE ensure_loop(_, _, _, _)
ensure_loop(W, i, es, acc) ==
    IF i > Len(ToolOrder) THEN [acc EXCEPT !.w = W]
    ELSE LET tool_name == ToolOrder[i]
             record(r) == [acc EXCEPT
                   !.installed_tools[tool_name] = IF r.exc = "none" THEN r.path ELSE @,
                   !.attempted = @ \cup {tool_name},
                   !.excs[tool_name] = r.exc,
                   !.requested = IF r.requested THEN @ \cup {tool_name} ELSE @,
                   !.downloaded = IF r.downloaded THEN @ \cup {tool_name} ELSE @,
                   !.extracted = IF r.extracted THEN @ \cup {tool_name} ELSE @]
             \* an exception of install_tool leaves the loop and the method
             installed(r) ==
                 IF r.exc # "none" THEN [record(r) EXCEPT !.w = r.w, !.exc = r.exc]
                 ELSE ensure_loop(r.w, i + 1, es, record(r))
             checked(inst) ==
                 IF inst.value THEN ensure_loop(inst.w, i + 1, es, acc)
                 ELSE installed(install_tool(inst.w, tool_name, NoVersion, es[tool_name]))
         IN  checked(is_tool_installed(W, tool_name))

ensure_tools_installed(W, es) ==
    ensure_loop(W, 1, es,
        [w |-> W, exc |-> "none", installed_tools |-> NoneInstalled,
         excs |-> NotCalled, attempted |-> {}, requested |-> {},
         downloaded |-> {}, extracted |-> {}])

\* get_available_versions without the check of the tool name.
get_available_versions_unchecked(W, tool_name) ==
    LET ld == _load_url_config(W.url_config)
        cat == Catalog(ld.cfg)
    IN  IF ld.exc # "none"
        THEN [w |-> W, exc |-> ld.exc, versions |-> <<>>]
        ELSE [w |-> [W EXCEPT !.url_config = ld.cfg], exc |-> "none",
              versions |-> IF tool_name \in DOMAIN cat
                           THEN VersionLabels(cat[tool_name]) ELSE <<>>]

\* get_available_versions: [w, exc, versions]
get_available_versions(W, tool_name) ==
    LET ld == _load_url_config(W.url_config)
        cat == Catalog(ld.cfg)
    IN  IF tool_name \notin Tools
        THEN [w |-> W, exc |-> "ValueError", versions |-> <<>>]
        ELSE IF ld.exc # "none"
        THEN [w |-> W, exc |-> ld.exc, versions |-> <<>>]
        ELSE [w |-> [W EXCEPT !.url_config = ld.cfg], exc |-> "none",
              versions |-> IF tool_name \in DOMAIN cat
                           THEN VersionLabels(cat[tool_name]) ELSE <<>>]

NoStatus == [t \in Tools |-> [installed |-> FALSE, path |-> NoPath]]

\* get_status: [w, exc, tools]; tools is status['tools'].
RECURSIVE get_status_loop(_, _, _)
get_status_loop(W, i, status) ==
    IF i > Len(ToolOrder) THEN [w |-> W, exc |-> "none", tools |-> status]
    ELSE LET tool_name == ToolOrder[i]
             \* lines 224-230, given what get_tool_path did
             with_path(got) ==
                 get_status_loop(got.w, i + 1,
                    [status EXCEPT ![tool_name] =
                        IF got.exc = "ToolNotFoundError"
                        THEN [installed |-> FALSE, path |-> NoPath]
                        ELSE [installed |-> TRUE, path |-> got.path]])
             checked(inst) ==
                 IF inst.value THEN with_path(get_tool_path(inst.w, tool_name))
                 ELSE get_status_loop(inst.w, i + 1,
                        [status EXCEPT ![tool_name] =
                            [installed |-> FALSE, path |-> NoPath]])
         IN  checked(is_tool_installed(W, tool_name))

\* get_status leaving every 'path' at None.
get_status_without_paths(W) ==
    LET strip(r) ==
            [r EXCEPT !.tools = [t \in Tools |-> [@[t] EXCEPT !.path = NoPath]]]
    IN  strip(get_status_loop(W, 1, NoStatus))

get_status(W) == get_status_loop(W, 1, NoStatus)

\* What subprocess.run does once the child process was started: it exits
\* with a code, or a timeout given in kwargs expires.
Outcomes == {"exit 0", "exit 1", "TimeoutExpired"}

\* run_tool: [w, exc, spawned, returncode].  Starting the process raises
\* FileNotFoundError when the path names no file and PermissionError when the
\* file may not be executed; neither is a subprocess.SubprocessError.
run_tool(W, tool_name, o) ==
    LET ran(got) ==
            LET p == got.path
                exists == IF p[1] = "PATH" THEN sys_path[p[2]]
                          ELSE PathExists(W.tool_dirs, p)
                executable == IF p[1] = "PATH" THEN sys_path[p[2]]
                              ELSE os_name_nt \/ W.tool_dirs[p[1]][p[2]] = "exec"
                none == [w |-> got.w, exc |-> "none", spawned |-> FALSE,
                         returncode |-> -1]
            IN  IF got.exc # "none" THEN [none EXCEPT !.exc = got.exc]
                ELSE IF ~exists THEN [none EXCEPT !.exc = "FileNotFoundError"]
                ELSE IF ~executable THEN [none EXCEPT !.exc = "PermissionError"]
                ELSE CASE o = "exit 0" -> [none EXCEPT !.spawned = TRUE, !.returncode = 0]
                       [] o = "exit 1" -> [none EXCEPT !.spawned = TRUE, !.returncode = 1]
                       [] OTHER -> [none EXCEPT !.spawned = TRUE,
                                                !.exc = "SimplicityToolsError"]
    IN  ran(get_tool_path(W, tool_name))

----------------------------------------------------------------------------
(* The state machine *)

Hosts == { <<"linux", "x86_64">>, <<"windows", "amd64">>, <<"freebsd", "amd64">> }
VersionInputs == {NoVersion, "latest", "v2025.05.07", "bogus"}

\* The platform description of a call that returned none.
NoInfo == [system |-> "-", machine |-> "-", architecture |-> "-"]

\* The processes that call install_tool at the same time, each on a registry
\* of its own, and a process that has no call under way.
Procs == {1, 2}
Idle == [pc |-> "idle", tool |-> "-", file |-> <<>>, exc |-> "none"]

Blank ==
    [op |-> "__init__", tool |-> "-", version |-> NoVersion,
     exc |-> "none", path |-> NoPath,
     value |-> FALSE, probed |-> FALSE, attempted |-> {}, requested |-> {},
     downloaded |-> {}, extracted |-> {}, installed_tools |-> NoneInstalled,
     excs |-> NotCalled, warnings |-> {}, refused |-> {},
     format |-> "-", url |-> <<>>, filename |-> <<>>, versions |-> <<>>,
     tools |-> NoStatus, spawned |-> FALSE, returncode |-> -1, msg |-> "-",
     info |-> NoInfo, cause |-> "none"]

Init ==
    /\ \E h \in Hosts : system = h[1] /\ machine = h[2]
    /\ resource = "missing"
    /\ url_config = "unloaded"
    /\ tool_paths = NoneInstalled
    /\ tool_dirs = [t \in Tools |-> EmptyDir]
    /\ archives = {}
    /\ sys_path \in [Tools -> BOOLEAN]
    /\ last = Blank
    /\ installed_ret = NoneInstalled
    /\ ext = 0
    /\ calls = [p \in Procs |-> Idle]
    /\ holder = {}
    /\ downloaded_to = NoneInstalled

Commit(w) ==
    /\ tool_paths' = w.tool_paths
    /\ url_config' = w.url_config
    /\ tool_dirs' = w.tool_dirs
    /\ archives' = w.archives
    /\ UNCHANGED <<system, machine, resource, sys_path, ext, calls, holder>>

\* SimplicityTools(tools_dir): a new registry over the same tools root.
NewRegistry ==
    /\ tool_paths' = NoneInstalled
    /\ url_config' = "unloaded"
    /\ installed_ret' = NoneInstalled
    /\ last' = Blank
    /\ UNCHANGED <<system, machine, resource, tool_dirs, archives, sys_path, ext,
                   calls, holder,
                   downloaded_to>>

IsToolInstalled(t) ==
    LET returns(r) ==
            /\ Commit(r.w)
            /\ last' = [Blank EXCEPT !.op = "is_tool_installed", !.tool = t,
                          !.exc = r.exc, !.value = r.value, !.path = r.path,
                          !.probed = r.probed]
            /\ UNCHANGED <<installed_ret, downloaded_to>>
    IN  returns(is_tool_installed(World, t))

GetToolPath(t) ==
    LET returns(r) ==
            /\ Commit(r.w)
            /\ last' = [Blank EXCEPT !.op = "get_tool_path", !.tool = t,
                          !.exc = r.exc, !.path = r.path, !.probed = r.probed]
            /\ UNCHANGED <<installed_ret, downloaded_to>>
    IN  returns(get_tool_path(World, t))

\* The host's behaviour matters only to a call that reaches the download.
EnvsFor(requested) == IF requested THEN Envs ELSE {DefaultEnv}

InstallTool(t, v) ==
    LET returns(r) ==
            /\ Commit(r.w)
            /\ last' = [Blank EXCEPT !.op = "install_tool", !.tool = t,
                          !.version = v,
                          !.exc = r.exc, !.cause = r.cause, !.path = r.path,
                          !.attempted = {t},
                          !.requested = IF r.requested THEN {t} ELSE {},
                          !.downloaded = IF r.downloaded THEN {t} ELSE {},
                          !.extracted = IF r.extracted THEN {t} ELSE {},
                          !.format = r.format, !.filename = r.filename]
            /\ installed_ret' = IF r.exc = "none"
                                THEN [installed_ret EXCEPT ![t] = r.path]
                                ELSE installed_ret
            /\ downloaded_to' = IF r.exc = "none" /\ r.requested
                                 THEN [downloaded_to EXCEPT ![t] = r.path]
                                 ELSE downloaded_to
    IN  \E e \in EnvsFor(install_tool(World, t, v, DefaultEnv).requested) :
            returns(install_tool(World, t, v, e))

Both(e1, e2) == [t \in Tools |-> IF t = ToolOrder[1] THEN e1 ELSE e2]

BatchLast(op, r) ==
    [Blank EXCEPT !.op = op, !.exc = r.exc, !.attempted = r.attempted,
       !.requested = r.requested, !.downloaded = r.downloaded,
       !.extracted = r.extracted, !.installed_tools = r.installed_tools,
       !.excs = r.excs]

BatchRet(r) ==
    [t \in Tools |-> IF r.installed_tools[t] # NoPath
                     THEN r.installed_tools[t] ELSE installed_ret[t]]

BatchDownloaded(r) ==
    [t \in Tools |-> IF t \in r.requested /\ r.installed_tools[t] # NoPath
                     THEN r.installed_tools[t] ELSE downloaded_to[t]]

BatchReturns(op, r) ==
    /\ Commit(r.w)
    /\ last' = BatchLast(op, r)
    /\ installed_ret' = BatchRet(r)
    /\ downloaded_to' = BatchDownloaded(r)

InstallAllTools ==
    \E e1 \in EnvsFor(ToolOrder[1] \in
                install_all_tools(World, Both(DefaultEnv, DefaultEnv)).requested) :
      \E e2 \in EnvsFor(ToolOrder[2] \in
                install_all_tools(World, Both(e1, DefaultEnv)).requested) :
        BatchReturns("install_all_tools", install_all_tools(World, Both(e1, e2)))

EnsureToolsInstalled ==
    \E e1 \in EnvsFor(ToolOrder[1] \in
                ensure_tools_installed(World, Both(DefaultEnv, DefaultEnv)).requested) :
      \E e2 \in EnvsFor(ToolOrder[2] \in
                ensure_tools_installed(World, Both(e1, DefaultEnv)).requested) :
        BatchReturns("ensure_tools_installed", ensure_tools_installed(World, Both(e1, e2)))

UninstallTool(t) ==
    LET returns(r, f) ==
            /\ Commit(r.w)
            /\ last' = [Blank EXCEPT !.op = "uninstall_tool", !.tool = t,
                          !.exc = r.exc, !.warnings = r.warnings,
                          !.refused = {x \in {"top", "bin", "dir"} : f[x]}]
            /\ installed_ret' = IF r.exc = "none"
                                THEN [installed_ret EXCEPT ![t] = NoPath]
                                ELSE installed_ret
            /\ downloaded_to' = IF t \in Tools
                                 THEN [downloaded_to EXCEPT ![t] = NoPath]
                                 ELSE downloaded_to
    IN  \E f \in (IF t \in Tools THEN Failures(tool_dirs[subdir(t)])
                  ELSE {[top |-> FALSE, bin |-> FALSE, dir |-> FALSE]}) :
            returns(uninstall_tool(World, t, f), f)

GetAvailableVersions(t) ==
    LET returns(r) ==
            /\ Commit(r.w)
            /\ last' = [Blank EXCEPT !.op = "get_available_versions", !.tool = t,
                          !.exc = r.exc, !.versions = r.versions]
            /\ UNCHANGED <<installed_ret, downloaded_to>>
    IN  returns(get_available_versions(World, t))

GetStatus ==
    LET returns(r) ==
            /\ Commit(r.w)
            /\ last' = [Blank EXCEPT !.op = "get_status", !.exc = r.exc,
                          !.tools = r.tools]
            /\ UNCHANGED <<installed_ret, downloaded_to>>
    IN  returns(get_status(World))

RunTool(t) ==
    LET returns(r) ==
            /\ Commit(r.w)
            /\ last' = [Blank EXCEPT !.op = "run_tool", !.tool = t,
                          !.exc = r.exc, !.spawned = r.spawned,
                          !.returncode = r.returncode]
            /\ UNCHANGED <<installed_ret, downloaded_to>>
    IN  \E o \in (IF run_tool(World, t, "exit 0").spawned THEN Outcomes
                  ELSE {"exit 0"}) :
            returns(run_tool(World, t, o))

\* platform_detector.get_tool_urls(t, v), called on the registry's detector.
GetToolUrls(t, v) ==
    LET returns(r) ==
            /\ Commit([World EXCEPT !.url_config = r.cfg])
            /\ last' = [Blank EXCEPT !.op = "get_tool_urls", !.tool = t,
                          !.version = v, !.exc = r.exc, !.msg = r.msg,
                          !.url = r.url, !.filename = r.filename]
            /\ UNCHANGED <<installed_ret, downloaded_to>>
    IN  returns(get_tool_urls(url_config, t, v))

\* Other processes: one puts an executable-named file into a tool's
\* subdirectory, removes the subdirectory, or changes the search path.
ExternalPut(t, loc, mode) ==
    /\ ext < MaxExternal
    /\ tool_dirs' = [tool_dirs EXCEPT ![t].exists = TRUE, ![t][loc] = mode]
    /\ tool_dirs' # tool_dirs
    /\ ext' = ext + 1
    /\ downloaded_to' = [downloaded_to EXCEPT ![t] = NoPath]
    /\ UNCHANGED <<system, machine, resource, url_config, tool_paths, archives,
                   sys_path, last, installed_ret, calls, holder>>

ExternalRemove(t) ==
    /\ ext < MaxExternal
    /\ tool_dirs[t].exists
    /\ tool_dirs' = [tool_dirs EXCEPT ![t] = EmptyDir]
    /\ ext' = ext + 1
    /\ downloaded_to' = [downloaded_to EXCEPT ![t] = NoPath]
    /\ UNCHANGED <<system, machine, resource, url_config, tool_paths, archives,
                   sys_path, last, installed_ret, calls, holder>>

ExternalSearchPath(t) ==
    /\ ext < MaxExternal
    /\ sys_path' = [sys_path EXCEPT ![t] = ~@]
    /\ ext' = ext + 1
    /\ UNCHANGED <<system, machine, resource, url_config, tool_paths, tool_dirs,
                   archives, last, installed_ret, calls, holder,
                   downloaded_to>>

\* Calls on one managed tool (and on an unknown name), with everything the
\* host can do to that tool in between.
FocusTools == {"slc-cli"}
CallNames == FocusTools \cup {"invalid-tool"}
ToolNames == Tools \cup {"invalid-tool"}

Next ==
    \/ NewRegistry
    \/ \E t \in CallNames : IsToolInstalled(t)
    \/ \E t \in CallNames : GetToolPath(t)
    \/ \E t \in CallNames, v \in VersionInputs : InstallTool(t, v)
    \/ \E t \in CallNames : UninstallTool(t)
    \/ \E t \in CallNames : GetAvailableVersions(t)
    \/ \E t \in CallNames : RunTool(t)
    \/ GetStatus
    \/ \E t \in FocusTools, loc \in {"top", "bin"}, mode \in {"plain", "exec"} :
          ExternalPut(t, loc, mode)
    \/ \E t \in FocusTools : ExternalRemove(t)
    \/ \E t \in FocusTools : ExternalSearchPath(t)

Spec == Init /\ [][Next]_vars

\* The operations that work on every managed tool in one call, with
\* uninstall_tool and new registries in between.
NextBatch ==
    \/ NewRegistry
    \/ InstallAllTools
    \/ EnsureToolsInstalled
    \/ \E t \in Tools : UninstallTool(t)

SpecBatch == Init /\ [][NextBatch]_vars

\* The catalog: every state of the bundled resource, with the calls that
\* read it, on both tools and an unknown name.
InitCatalog ==
    /\ \E h \in Hosts : system = h[1] /\ machine = h[2]
    /\ resource \in Resources
    /\ url_config = "unloaded"
    /\ tool_paths = NoneInstalled
    /\ tool_dirs = [t \in Tools |-> EmptyDir]
    /\ archives = {}
    /\ sys_path \in [Tools -> BOOLEAN]
    /\ last = Blank
    /\ installed_ret = NoneInstalled
    /\ ext = 0
    /\ calls = [p \in Procs |-> Idle]
    /\ holder = {}
    /\ downloaded_to = NoneInstalled

NextCatalog ==
    \/ NewRegistry
    \/ \E t \in ToolNames, v \in VersionInputs \ {NoVersion} : GetToolUrls(t, v)
    \/ \E t \in ToolNames : GetAvailableVersions(t)
    \/ \E t \in ToolNames, v \in VersionInputs : InstallTool(t, v)

SpecCatalog == InitCatalog /\ [][NextCatalog]_vars

\* The platform detector: every host it can find itself on.  platform.system()
\* and platform.machine() give strings of either case ('Linux', 'AMD64'); the
\* constructor lower-cases them.
PlatformSystems == {"Windows", "Darwin", "Linux", "FreeBSD"}
PlatformMachines ==
    {"x86_64", "AMD64", "amd64", "i386", "i686", "aarch64", "arm64", "ARM64",
     "armv7l", "armv8l", "riscv64", "ppc64le", "x64", "x86", ""}

\* str.lower() on the strings above.
lower(str) ==
    CASE str = "Windows" -> "windows"
      [] str = "Darwin"  -> "darwin"
      [] str = "Linux"   -> "linux"
      [] str = "FreeBSD" -> "freebsd"
      [] str = "AMD64"   -> "amd64"
      [] str = "ARM64"   -> "arm64"
      [] OTHER           -> str

InitPlatform ==
    /\ \E s \in PlatformSystems : system = lower(s)
    /\ \E m \in PlatformMachines : machine = lower(m)
    /\ resource = "missing"
    /\ url_config = "unloaded"
    /\ tool_paths = NoneInstalled
    /\ tool_dirs = [t \in Tools |-> EmptyDir]
    /\ archives = {}
    /\ sys_path = [t \in Tools |-> FALSE]
    /\ last = Blank
    /\ installed_ret = NoneInstalled
    /\ ext = 0
    /\ calls = [p \in Procs |-> Idle]
    /\ holder = {}
    /\ downloaded_to = NoneInstalled

\* SimplicityTools.is_platform_supported()
IsPlatformSupported ==
    /\ last' = [Blank EXCEPT !.op = "is_platform_supported", !.value = is_supported]
    /\ UNCHANGED <<system, machine, resource, url_config, tool_paths, tool_dirs,
                   archives, sys_path, installed_ret, ext, calls, holder,
                   downloaded_to>>

\* SimplicityTools.get_platform_info()
GetPlatformInfo ==
    /\ last' = [Blank EXCEPT !.op = "get_platform_info", !.info = get_platform_info]
    /\ UNCHANGED <<system, machine, resource, url_config, tool_paths, tool_dirs,
                   archives, sys_path, installed_ret, ext, calls, holder,
                   downloaded_to>>

NextPlatform ==
    \/ NewRegistry
    \/ IsPlatformSupported
    \/ GetPlatformInfo

SpecPlatform == InitPlatform /\ [][NextPlatform]_vars

\* Another process replaces, removes or locks the bundled resource.
ExternalResource(r) ==
    /\ ext < MaxExternal
    /\ r # resource
    /\ resource' = r
    /\ ext' = ext + 1
    /\ UNCHANGED <<system, machine, url_config, tool_paths, tool_dirs, archives,
                   sys_path, last, installed_ret, calls, holder,
                   downloaded_to>>

\* One registry reading the catalog again and again while the resource
\* changes on disk.
NextReload ==
    \/ NewRegistry
    \/ \E t \in CallNames : GetAvailableVersions(t)
    \/ \E t \in FocusTools : GetToolUrls(t, "latest")
    \/ \E t \in FocusTools : InstallTool(t, NoVersion)
    \/ \E r \in Resources : ExternalResource(r)

SpecReload == InitCatalog /\ [][NextReload]_vars

\* Two processes, each with a registry of its own over the same tools root,
\* call install_tool at the same time.  A call that reaches the download goes
\* through download_and_extract_tool statement by statement, and the
\* statements of the two calls interleave.  Every step of the host succeeds
\* unless the other call has interfered.

\* The archive file of name f as the process p has just created it.
Created(f, p) == [name |-> f, by |-> p, complete |-> FALSE]

\* install_tool up to the request of download_file (core.py 109-154,
\* downloader.py 27-33) on a new registry: the path of the archive is the
\* tools root joined with the last segment of the URL.
Begin(p, t) ==
    LET starts(r) ==
            /\ r.requested
            /\ calls' = [calls EXCEPT ![p] = [pc |-> "open", tool |-> t,
                                              file |-> r.filename, exc |-> "none"]]
    IN  /\ calls[p].pc = "idle"
        /\ starts(install_tool([World EXCEPT !.tool_paths = NoneInstalled,
                                             !.url_config = "unloaded"],
                               t, NoVersion, DefaultEnv))
        /\ UNCHANGED <<system, machine, resource, url_config, tool_paths, tool_dirs,
                       archives, sys_path, last, installed_ret, ext, holder,
                       downloaded_to>>

\* open(file_path, 'wb'): creates the file, or truncates the one that is there.
Open(p) ==
    /\ calls[p].pc = "open"
    /\ archives' = archives \cup {calls[p].file}
    /\ holder' = {h \in holder : h.name # calls[p].file}
                     \cup {Created(calls[p].file, p)}
    /\ calls' = [calls EXCEPT ![p].pc = "write"]
    /\ UNCHANGED <<system, machine, resource, url_config, tool_paths, tool_dirs,
                   sys_path, last, installed_ret, ext,
                   downloaded_to>>

\* The stream ends and the file is closed: the archive is whole if no other
\* process has truncated or deleted the file in the meantime.
Write(p) ==
    /\ calls[p].pc = "write"
    /\ holder' = {IF h = Created(calls[p].file, p) THEN [h EXCEPT !.complete = TRUE]
                  ELSE h : h \in holder}
    /\ calls' = [calls EXCEPT ![p].pc = "extract"]
    /\ UNCHANGED <<system, machine, resource, url_config, tool_paths, tool_dirs,
                   archives, sys_path, last, installed_ret, ext,
                   downloaded_to>>

\* Lines 105-119 of download_and_extract_tool: mkdir, extract_archive,
\* find_executable_in_dir, make_executable.  Opening an archive that is no
\* longer there raises FileNotFoundError, reading one that is not whole
\* raises BadZipFile or tarfile.ReadError.
Extract(p) ==
    LET t == calls[p].tool
        f == calls[p].file
        d == [tool_dirs[t] EXCEPT !.exists = TRUE]
        extracted(ex) ==
            LET found == find_executable_in_dir(ex.dir, t)
                made(mk) ==
                    /\ tool_dirs' = [tool_dirs EXCEPT ![t] = mk.dir]
                    /\ calls' = [calls EXCEPT ![p].pc = "cleanup", ![p].exc = mk.exc]
            IN  IF ex.exc # "none" \/ found = NoPath
                THEN /\ tool_dirs' = [tool_dirs EXCEPT ![t] = ex.dir]
                     /\ calls' = [calls EXCEPT ![p].pc = "cleanup",
                                               ![p].exc = "InstallationError"]
                ELSE made(make_executable(ex.dir, found[2], DefaultEnv))
    IN  /\ calls[p].pc = "extract"
        /\ IF f \notin archives
           THEN /\ tool_dirs' = [tool_dirs EXCEPT ![t] = d]
                /\ calls' = [calls EXCEPT ![p].pc = "cleanup",
                                          ![p].exc = "FileNotFoundError"]
           ELSE IF \E h \in holder : h.name = f /\ ~h.complete
           THEN /\ tool_dirs' = [tool_dirs EXCEPT ![t] = d]
                /\ calls' = [calls EXCEPT ![p].pc = "cleanup",
                                          ![p].exc = "InstallationError"]
           ELSE extracted(extract_archive(f, d, DefaultEnv))
        /\ UNCHANGED <<system, machine, resource, url_config, tool_paths,
                       archives, sys_path, last, installed_ret, ext, holder,
                       downloaded_to>>

\* The finally block (cleanup_archive) and the end of install_tool: the path
\* is returned, or the exception is raised as InstallationError.
Cleanup(p) ==
    LET t == calls[p].tool
        f == calls[p].file
    IN  /\ calls[p].pc = "cleanup"
        /\ archives' = cleanup_archive(archives, f, DefaultEnv).archives
        /\ holder' = {h \in holder : h.name # f}
        /\ calls' = [calls EXCEPT ![p] = Idle]
        /\ last' = [Blank EXCEPT !.op = "install_tool", !.tool = t,
                      !.exc = IF calls[p].exc = "none" THEN "none"
                              ELSE "InstallationError",
                      !.path = IF calls[p].exc = "none"
                               THEN find_executable_in_dir(tool_dirs[t], t)
                               ELSE NoPath,
                      !.attempted = {t}, !.requested = {t}, !.filename = f]
        /\ downloaded_to' =
              IF calls[p].exc = "none"
              THEN [downloaded_to EXCEPT ![t] = find_executable_in_dir(tool_dirs[t], t)]
              ELSE downloaded_to
        /\ UNCHANGED <<system, machine, resource, url_config, tool_paths, tool_dirs,
                       sys_path, installed_ret, ext>>

NextConcurrent ==
    \/ \E p \in Procs, t \in Tools : Begin(p, t)
    \/ \E p \in Procs : Open(p)
    \/ \E p \in Procs : Write(p)
    \/ \E p \in Procs : Extract(p)
    \/ \E p \in Procs : Cleanup(p)
    \/ \E t \in Tools : UninstallTool(t)

SpecConcurrent == Init /\ [][NextConcurrent]_vars

----------------------------------------------------------------------------
(* Properties *)

\* A step is a call of `op` on the registry exactly when it leaves the count
\* of outside changes alone and ends in a record of that call; `last` in the
\* state after the step then describes the call, the unprimed variables the
\* state it started in.
Called(op) == ext' = ext /\ last'.op = op

\* C1: if install_tool(tool) has succeeded on this registry instance and
\* install_tool(tool) is called again with no uninstall_tool(tool) in between,
\* the second call makes no network request, extracts nothing and returns the
\* path the first call returned; no call downloads or extracts more than once.
C1_IdempotentInstall ==
    [][\A t \in Tools :
          (Called("install_tool") /\ last'.tool = t /\ installed_ret[t] # NoPath)
             => /\ last'.requested = {} /\ last'.extracted = {}
                /\ last'.exc = "none" => last'.path = installed_ret[t]
                /\ last'.version = NoVersion => last'.exc = "none"]_vars

\* C1 witness: a second install_tool call returned, without any request, the
\* executable that an earlier download on this host had installed and made
\* executable (no other process has touched the host).
C1_Witness ==
    \E t \in Tools :
        /\ last.op = "install_tool" /\ last.tool = t /\ last.exc = "none"
        /\ last.requested = {} /\ last.path = DirPath(t, "top")
        /\ installed_ret[t] = last.path
        /\ ext = 0 /\ ~os_name_nt /\ ~sys_path[t]
        /\ tool_dirs[t].top = "exec"

\* The archive file the last install_tool call downloaded to.
LastArchive ==
    LET labels == VersionLabels(Catalog(url_config)[last.tool])
        ver == IF last.version = NoVersion THEN labels[1] ELSE last.version
    IN  get_tool_urls(url_config, last.tool, ver).filename

\* C2: once install_tool has downloaded the archive, the archive file no
\* longer exists when the call returns or raises, whichever later step
\* (creating the tool's directory, extracting, locating the executable,
\* marking it executable) succeeds or fails.
C2_ArchiveCleanup ==
    (last.op = "install_tool" /\ last.downloaded # {})
        => LastArchive \notin archives

\* C3 (as claimed): after uninstall_tool(tool) returns, is_tool_installed(tool)
\* is false, and the tool's subdirectory no longer exists or is at least not
\* referenced by the path cache.
C3_UninstallPostcondition ==
    [][\A t \in Tools :
          (Called("uninstall_tool") /\ last'.tool = t)
             => /\ ~is_tool_installed(World, t).value'
                /\ ~tool_dirs'[subdir(t)].exists \/ tool_paths'[t] = NoPath]_vars

\* C3 (amended): after uninstall_tool(tool) returns, the path cache holds no
\* entry for the tool; when no deletion failed the subdirectory no longer
\* exists; and is_tool_installed(tool) is then true exactly when a file with
\* the executable's name is left in the subdirectory or the executable is on
\* the system search path.
C3_UninstallClearsCache ==
    [][\A t \in Tools :
          (Called("uninstall_tool") /\ last'.tool = t)
             => /\ tool_paths'[t] = NoPath
                /\ last'.warnings = {} => ~tool_dirs'[subdir(t)].exists
                /\ is_tool_installed(World, t).value'
                     <=> \/ sys_path'[t]
                         \/ \E loc \in {"top", "bin"} : loc \in last'.warnings]_vars

\* C3 witness: uninstall_tool has returned for a tool that was resolved from
\* its subdirectory; a deletion failed, the file is still there, the cache
\* entry is gone.
C3_Witness ==
    \E t \in Tools :
        /\ last.op = "uninstall_tool" /\ last.tool = t /\ last.exc = "none"
        /\ "top" \in last.warnings /\ tool_dirs[subdir(t)].top # "absent"
        /\ tool_paths[t] = NoPath /\ ext = 0

\* Whether the file a path names exists, and whether it may be executed
\* (shutil.which returns executable files only).
FileExists(p) ==
    IF p[1] = "PATH" THEN sys_path[p[2]] ELSE tool_dirs[p[1]][p[2]] # "absent"
FileExecutable(p) ==
    IF p[1] = "PATH" THEN sys_path[p[2]] ELSE tool_dirs[p[1]][p[2]] = "exec"

\* The path _get_tool_path(t) returns in the current state names a file that
\* exists and, on a host that is not Windows, is executable.
ResolvesToRunnable(t) ==
    LET p == _get_tool_path(World, t).path
    IN  /\ p # NoPath
        /\ FileExists(p)
        /\ ~os_name_nt => FileExecutable(p)

\* C4: whenever install_tool(tool) returns successfully, having
\* downloaded the tool or found it installed, the path _get_tool_path(tool)
\* then returns names an existing file, executable on non-Windows hosts.
C4_RoundTrip ==
    [][\A t \in Tools :
          (Called("install_tool") /\ last'.tool = t /\ last'.exc = "none")
             => ResolvesToRunnable(t)']_vars

LookupOps == {"is_tool_installed", "get_tool_path"}

\* C5 (as claimed): once a lookup of a tool has been made, whatever its
\* result, the next lookup of that tool returns the same result without
\* probing the disk or the search path, whatever other processes did between
\* the two.
C5_CacheStability ==
    [][\A t \in Tools :
          (/\ \E op \in LookupOps : Called(op)
           /\ last'.tool = t
           /\ last.op \in LookupOps /\ last.tool = t)
             => last'.path = last.path /\ ~last'.probed]_vars

\* C5 (amended): once a lookup of a tool has returned a path, the path is in
\* the cache, stays there until uninstall_tool(tool) or a new registry, and
\* every later lookup returns it without probing the disk or the search path;
\* a lookup that found nothing caches nothing, and the next lookup probes
\* again.
C5_HitsAreCached ==
    [][\A t \in Tools :
          /\ ((\E op \in LookupOps : Called(op)) /\ last'.tool = t)
                => /\ tool_paths[t] # NoPath
                      => /\ last'.path = tool_paths[t]
                         /\ ~last'.probed
                   /\ tool_paths[t] = NoPath => last'.probed
                   /\ tool_paths'[t] = last'.path
          /\ (/\ tool_paths[t] # NoPath
              /\ ~(Called("uninstall_tool") /\ last'.tool = t)
              /\ ~Called("__init__"))
                => tool_paths'[t] = tool_paths[t]]_vars

\* C5 witness: a lookup returned, without probing, the cached path of a file
\* that another process has removed in the meantime.
C5_Witness ==
    \E t \in Tools :
        /\ last.op \in LookupOps /\ last.tool = t /\ ~last.probed
        /\ last.path[1] = t /\ tool_dirs[t][last.path[2]] = "absent"

\* C6: on a platform outside the allow-list, install_tool of a managed tool
\* fails with PlatformNotSupportedError without any network request and
\* leaves the path cache and the tools root as they were.
C6_UnsupportedPlatform ==
    [][\A t \in Tools :
          (Called("install_tool") /\ last'.tool = t
             /\ <<system, architecture>> \notin supported_platforms)
             => /\ last'.exc = "PlatformNotSupportedError"
                /\ last'.requested = {}
                /\ UNCHANGED <<tool_paths, tool_dirs, archives>>]_vars

\* C6 witness: install_tool has failed on an unsupported platform although
\* the tool resolves (the cache holds its path).
C6_Witness ==
    \E t \in Tools :
        /\ <<system, architecture>> \notin supported_platforms
        /\ last.op = "install_tool" /\ last.tool = t
        /\ last.exc = "PlatformNotSupportedError"
        /\ tool_paths[t] # NoPath

\* The managed tools that are not installed in the current state.
NotInstalled == {t \in Tools : ~is_tool_installed(World, t).value}

\* The tools up to and including position i of the iteration order.
UpTo(i) == {ToolOrder[j] : j \in 1..i}

\* C7 (as claimed): in ensure_tools_installed every managed tool that is not
\* installed gets an install attempt, whether or not the install of another
\* tool failed.
C7_EnsureIsolation ==
    [][Called("ensure_tools_installed")
          => \A t \in NotInstalled : t \in last'.attempted]_vars

\* C7 (amended): ensure_tools_installed calls install_tool for the managed
\* tools that are not installed, in order, and stops at the first failure,
\* which it raises to its caller: the failing tool and the not-installed tools
\* before it get an attempt, the tools after it get none in that call.
C7_EnsureStopsAtFirstFailure ==
    [][Called("ensure_tools_installed")
          => /\ last'.attempted \subseteq NotInstalled
             /\ last'.exc = "none"
                   => /\ last'.attempted = NotInstalled
                      /\ \A t \in NotInstalled : last'.excs[t] = "none"
             /\ last'.exc # "none"
                   => \E i \in 1..Len(ToolOrder) :
                         /\ ToolOrder[i] \in NotInstalled
                         /\ last'.excs[ToolOrder[i]] = last'.exc
                         /\ last'.attempted = UpTo(i) \cap NotInstalled
                         /\ \A t \in last'.attempted \ {ToolOrder[i]} :
                               last'.excs[t] = "none"]_vars

\* C7 witness: ensure_tools_installed has raised the failure of the first
\* tool's install on a supported platform, and the second tool, which is not
\* installed either, got no attempt.
C7_Witness ==
    /\ last.op = "ensure_tools_installed" /\ last.exc = "InstallationError"
    /\ last.attempted = {ToolOrder[1]}
    /\ is_supported
    /\ ToolOrder[2] \in NotInstalled

\* C8: install_all_tools calls install_tool for every managed tool, raises
\* nothing, and returns a mapping whose keys are exactly the tools whose
\* install_tool call succeeded, each with the path that call returned (the
\* path the cache then holds for the tool).
C8_InstallAllIsolation ==
    last.op = "install_all_tools"
        => /\ last.exc = "none"
           /\ last.attempted = Tools
           /\ \A t \in Tools :
                 /\ last.installed_tools[t] # NoPath <=> last.excs[t] = "none"
                 /\ last.installed_tools[t] # NoPath
                       => last.installed_tools[t] = tool_paths[t]

\* C8 witness: install_all_tools went to the network for both tools; the
\* first install failed, the second succeeded and is the only key returned.
C8_Witness ==
    /\ last.op = "install_all_tools"
    /\ last.requested = Tools
    /\ last.excs[ToolOrder[1]] = "InstallationError"
    /\ last.excs[ToolOrder[2]] = "none"
    /\ last.installed_tools[ToolOrder[1]] = NoPath
    /\ last.installed_tools[ToolOrder[2]] # NoPath

\* C9: uninstall_tool of a managed tool raises nothing when deletions fail,
\* removes every file whose deletion did not fail, and leaves no entry for the
\* tool in the path cache.
C9_BestEffortUninstall ==
    [][\A t \in Tools :
          (Called("uninstall_tool") /\ last'.tool = t)
             => /\ last'.exc = "none"
                /\ tool_paths'[t] = NoPath
                /\ \A loc \in {"top", "bin"} :
                      loc \notin last'.refused
                         => tool_dirs'[subdir(t)][loc] = "absent"
                /\ last'.refused = {} => ~tool_dirs'[subdir(t)].exists]_vars

\* C9 witness: the deletion of the nested file failed; uninstall_tool returned
\* normally, the file at the top is gone, the cache entry is gone.
C9_Witness ==
    \E t \in Tools :
        /\ last.op = "uninstall_tool" /\ last.tool = t /\ last.exc = "none"
        /\ last.refused = {"bin"}
        /\ tool_dirs[subdir(t)].bin # "absent"
        /\ tool_dirs[subdir(t)].top = "absent"
        /\ tool_paths[t] = NoPath

\* A file with the executable's name is somewhere below the tool's subdirectory.
InSubdir(t) == \E loc \in {"top", "bin"} : tool_dirs[subdir(t)][loc] # "absent"

\* C10: a lookup returns the cached path if there is one; otherwise a file of
\* the tool's subdirectory if one has the executable's name; otherwise the
\* executable on the search path if there is one; otherwise nothing.  A path
\* found is stored in the cache.
C10_ProbeOrder ==
    [][\A t \in Tools :
          ((\E op \in LookupOps : Called(op)) /\ last'.tool = t)
             => /\ tool_paths[t] # NoPath => last'.path = tool_paths[t]
                /\ tool_paths[t] = NoPath
                      => /\ InSubdir(t)
                            => /\ last'.path[1] = t
                               /\ tool_dirs[subdir(t)][last'.path[2]] # "absent"
                         /\ (~InSubdir(t) /\ sys_path[t])
                               => last'.path = WhichPath(t)
                         /\ (~InSubdir(t) /\ ~sys_path[t])
                               => last'.path = NoPath
                         /\ last'.path # NoPath => tool_paths'[t] = last'.path]_vars

\* C10 witness: a lookup that had to probe returned the copy in the tool's
\* subdirectory although the executable is on the search path too.
C10_Witness ==
    \E t \in Tools :
        /\ last.op \in LookupOps /\ last.tool = t /\ last.probed
        /\ last.path[1] = t
        /\ sys_path[t]

\* The tool resolves in the current state of a supported host.
Resolvable(t) == is_supported /\ _get_tool_path(World, t).path # NoPath

\* C11 (as claimed): on a supported platform, install_tool of a tool that
\* already resolves returns the resolved path, without a request and without
\* failing, whatever is passed as version.
C11_ShortCircuitAnyVersion ==
    [][\A t \in Tools :
          (Called("install_tool") /\ last'.tool = t /\ Resolvable(t))
             => /\ last'.exc = "none"
                /\ last'.path = _get_tool_path(World, t).path
                /\ last'.requested = {}]_vars

\* C11 (amended): on a supported platform, install_tool of a tool that
\* already resolves makes no request and leaves the tools root alone; it
\* returns the resolved path exactly when the catalog can be loaded and lists
\* the version asked for under the tool (its first version when none is
\* given); otherwise it fails as it does for a tool that is not installed.
C11_ShortCircuitAfterVersionCheck ==
    [][\A t \in Tools :
          (Called("install_tool") /\ last'.tool = t /\ Resolvable(t))
             => LET av == get_available_versions(World, t)
                    listed == {av.versions[i] : i \in 1..Len(av.versions)}
                IN  /\ last'.requested = {}
                    /\ UNCHANGED <<tool_dirs, archives>>
                    /\ last'.exc = "none"
                          <=> /\ av.exc = "none"
                              /\ IF last'.version = NoVersion THEN listed # {}
                                 ELSE last'.version \in listed
                    /\ last'.exc = "none"
                          => last'.path = _get_tool_path(World, t).path
                    /\ last'.exc # "none"
                          => last'.exc \in {"ValueError", "IndexError", "PermissionError"}]_vars

\* C11 witness: install_tool with a version the catalog lists second has
\* returned, without a request, the path of a tool installed before.
C11_Witness ==
    \E t \in Tools :
        /\ last.op = "install_tool" /\ last.tool = t /\ last.exc = "none"
        /\ last.requested = {} /\ last.version = "latest"
        /\ url_config = "partial"
        /\ last.path = installed_ret[t] /\ last.path = DirPath(t, "top")

\* What get_tool_urls(t, v) has to give for a catalog `cat` and the host's
\* platform key, by the order of checks claimed: [exc, msg, url]; msg tells
\* the two ValueErrors apart.
ByPriority(cat, t, v) ==
    LET key == <<system, architecture>>
        listed == IF t \in DOMAIN cat
                  THEN {i \in 1..Len(cat[t]) : cat[t][i].version = v} ELSE {}
        urls == cat[t][CHOOSE i \in listed : TRUE].urls
    IN  IF t \notin DOMAIN cat
        THEN [exc |-> "ValueError", msg |-> "Unknown tool", url |-> <<>>]
        ELSE IF listed = {}
        THEN [exc |-> "ValueError", msg |-> "Unknown version", url |-> <<>>]
        ELSE IF key \notin DOMAIN urls
        THEN [exc |-> "PlatformNotSupportedError", msg |-> "-", url |-> <<>>]
        ELSE [exc |-> "none", msg |-> "-", url |-> urls[key]]

\* The catalog the registry reads in the current state, when it can read one.
Readable == url_config # "unloaded" \/ resource # "unreadable"
CatalogRead ==
    IF url_config # "unloaded" THEN Catalog(url_config)
    ELSE IF resource \in ConfigFiles THEN Catalog(resource)
    ELSE _get_fallback_urls

\* C12 (as claimed): on every host, get_tool_urls(tool, version) fails with
\* the unknown-tool error if the catalog lacks the tool, else with the
\* unknown-version error if the tool lacks the version, else with
\* PlatformNotSupportedError if the version lacks the host's platform key,
\* else returns the URL and, as filename, its last '/'-separated segment.
C12_ErrorPriority ==
    [][(Called("get_tool_urls") /\ Readable)
          => LET want == ByPriority(CatalogRead, last'.tool, last'.version)
             IN  /\ last'.exc = want.exc
                 /\ want.exc = "ValueError" => last'.msg = want.msg
                 /\ last'.url = want.url
                 /\ want.exc = "none"
                       => last'.filename = last'.url[Len(last'.url)]]_vars

\* C12 (amended): on a host outside the allow-list get_tool_urls fails with
\* PlatformNotSupportedError before it looks at the catalog; on a host of the
\* allow-list it fails with the error of open() when the config file cannot
\* be read, and otherwise checks tool, version and platform key in that order.
C12_ErrorPriorityOnSupportedHost ==
    [][Called("get_tool_urls")
          => LET want == ByPriority(CatalogRead, last'.tool, last'.version)
             IN  IF <<system, architecture>> \notin supported_platforms
                 THEN /\ last'.exc = "PlatformNotSupportedError"
                      /\ last'.msg = "platform not supported"
                      /\ UNCHANGED url_config
                 ELSE IF ~Readable
                 THEN last'.exc = "PermissionError" /\ UNCHANGED url_config
                 ELSE /\ last'.exc = want.exc
                      /\ want.exc = "ValueError" => last'.msg = want.msg
                      /\ last'.url = want.url
                      /\ want.exc = "none"
                            => last'.filename = last'.url[Len(last'.url)]]_vars

\* C12 witness: get_tool_urls has failed for want of the host's platform key
\* under a tool and version the catalog lists, on a host of the allow-list.
C12_Witness ==
    /\ last.op = "get_tool_urls" /\ last.exc = "PlatformNotSupportedError"
    /\ <<system, architecture>> \in supported_platforms
    /\ url_config = "partial" /\ last.tool = "slc-cli" /\ last.version = "latest"

\* The last '.'-separated parts of a file name are `parts`.
EndsIn(name, parts) ==
    /\ Len(name) > Len(parts)
    /\ SubSeq(name, Len(name) - Len(parts) + 1, Len(name)) = parts

\* The step is an install_tool call of t that got as far as extract_archive:
\* the archive was downloaded and the directory to extract to exists.
Extracting(t) ==
    /\ Called("install_tool") /\ last'.tool = t
    /\ last'.downloaded # {} /\ tool_dirs'[t].exists

\* C13 (as claimed): extract_archive takes a name ending in .zip to zip
\* extraction, in .tar.gz or .tgz to gzip-compressed tar extraction, in .tar
\* to tar extraction, and fails for every other name with the
\* unsupported-format error, the filesystem then being as it was before the
\* call that led to it.
C13_ExtractionDispatch ==
    [][\A t \in Tools :
          Extracting(t)
             => LET name == last'.filename
                IN  CASE EndsIn(name, <<"zip">>) -> last'.format = "zip"
                      [] EndsIn(name, <<"tar", "gz">>) \/ EndsIn(name, <<"tgz">>)
                            -> last'.format = "tar.gz"
                      [] EndsIn(name, <<"tar">>) -> last'.format = "tar"
                      [] OTHER -> /\ last'.format = "-"
                                  /\ last'.exc = "InstallationError"
                                  /\ UNCHANGED <<tool_dirs, archives>>]_vars

\* C13 (amended): .zip goes to zip extraction, .tar.gz to gzip-compressed
\* tar extraction, .tar to tar extraction; every other name, .tgz included,
\* fails with the unsupported-format error and no archive library is run.
\* extract_archive then writes nothing: the files of the tool's directory and
\* the path cache are as before; install_tool has by then created the
\* directory, and the downloaded archive is deleted unless its deletion fails.
C13_ExtractionDispatchWithoutTgz ==
    [][\A t \in Tools :
          Extracting(t)
             => LET name == last'.filename
                IN  CASE EndsIn(name, <<"zip">>) -> last'.format = "zip"
                      [] EndsIn(name, <<"tar", "gz">>) -> last'.format = "tar.gz"
                      [] EndsIn(name, <<"tar">>) -> last'.format = "tar"
                      [] OTHER -> /\ last'.format = "-" /\ last'.extracted = {}
                                  /\ last'.exc = "InstallationError"
                                  /\ tool_dirs' = [tool_dirs EXCEPT ![t].exists = TRUE]
                                  /\ UNCHANGED tool_paths
                                  /\ archives \ {name} \subseteq archives'
                                  /\ archives' \subseteq archives \cup {name}]_vars

\* C13 witness: install_tool has failed on an archive named slc.tgz, with no
\* archive library run and the tool's directory created.
C13_Witness ==
    /\ last.op = "install_tool" /\ last.tool = "slc-cli"
    /\ last.downloaded # {} /\ last.format = "-"
    /\ last.exc = "InstallationError"
    /\ EndsIn(last.filename, <<"tgz">>)
    /\ tool_dirs["slc-cli"] = [EmptyDir EXCEPT !.exists = TRUE]

\* C14: a call that loads the catalog (get_available_versions of a managed
\* tool calls _load_url_config and nothing else that can fail) raises
\* nothing, whatever the state of the bundled resource, and the registry then
\* holds the resource's table when it could be read and parsed and the
\* built-in table in every other case.
C14_FallbackNeverRaises ==
    (last.op = "get_available_versions" /\ last.tool \in Tools)
        => /\ last.exc = "none"
           /\ url_config = IF resource \in ConfigFiles THEN resource ELSE "fallback"

\* C15: run_tool of a managed tool fails with ToolNotFoundError, starting no
\* process, when the tool's path does not resolve; a child process that ran
\* to its end gives its exit code, zero or not, as a normal result; and every
\* other failure of run_tool, a process that cannot be started included, is a
\* SimplicityToolsError.
C15_RunSemantics ==
    [][\A t \in Tools :
          (Called("run_tool") /\ last'.tool = t)
             => /\ _get_tool_path(World, t).path = NoPath
                      => last'.exc = "ToolNotFoundError" /\ ~last'.spawned
                /\ last'.exc = "none"
                      => last'.spawned /\ last'.returncode \in {0, 1}
                /\ last'.exc \notin {"none", "ToolNotFoundError"}
                      => last'.exc = "SimplicityToolsError"]_vars

\* C16: on one registry instance a cache entry for a tool comes into being
\* only as the path a lookup has just found or a successful install_tool has
\* just returned, keeps its value while it exists, and goes away only by
\* uninstall_tool of that tool (a new registry starts with an empty cache).
C16_CacheEntryLifecycle ==
    [][\A t \in Tools :
          /\ (tool_paths[t] = NoPath /\ tool_paths'[t] # NoPath)
                => /\ ext' = ext
                   /\ \/ tool_paths'[t] = _get_tool_path(World, t).path
                      \/ /\ Called("install_tool") /\ last'.tool = t
                         /\ last'.exc = "none" /\ last'.path = tool_paths'[t]
                      \/ /\ \E op \in {"install_all_tools", "ensure_tools_installed"} :
                               Called(op)
                         /\ last'.excs[t] = "none"
                         /\ last'.installed_tools[t] = tool_paths'[t]
          /\ (tool_paths[t] # NoPath /\ tool_paths'[t] # NoPath)
                => tool_paths'[t] = tool_paths[t]
          /\ (tool_paths[t] # NoPath /\ tool_paths'[t] = NoPath)
                => \/ Called("uninstall_tool") /\ last'.tool = t
                   \/ Called("__init__")]_vars

\* C16 witness: run_tool could not start the cached executable, which
\* another process has removed; the cache entry is still there.
C16_Witness ==
    \E t \in Tools :
        /\ last.op = "run_tool" /\ last.tool = t
        /\ last.exc = "FileNotFoundError"
        /\ tool_paths[t] = DirPath(t, "top")
        /\ tool_dirs[subdir(t)].top = "absent"

\* C17: in every state and for every managed tool, is_tool_installed is true
\* exactly when _get_tool_path returns a path; get_tool_path then returns
\* that path, and it fails with ToolNotFoundError exactly when _get_tool_path
\* returns nothing.  Both leave the cache as _get_tool_path leaves it.
C17_LookupsAgree ==
    \A t \in Tools :
        LET r == _get_tool_path(World, t)
            i == is_tool_installed(World, t)
            g == get_tool_path(World, t)
        IN  /\ r.exc = "none" /\ i.exc = "none"
            /\ i.value <=> r.path # NoPath
            /\ r.path # NoPath => g.exc = "none" /\ g.path = r.path
            /\ g.exc = "ToolNotFoundError" <=> r.path = NoPath
            /\ g.exc \in {"none", "ToolNotFoundError"}
            /\ i.w = r.w /\ g.w = r.w

\* C17 witness: get_tool_path has failed with ToolNotFoundError for one tool
\* while the other resolves, and is_tool_installed says the same of both.
C17_Witness ==
    \E t, u \in Tools :
        /\ last.op = "get_tool_path" /\ last.tool = t
        /\ last.exc = "ToolNotFoundError"
        /\ ~is_tool_installed(World, t).value
        /\ is_tool_installed(World, u).value
        /\ get_tool_path(World, u).path = WhichPath(u)

\* A registry has just been constructed over an empty tools root.
Fresh ==
    /\ last.op = "__init__" /\ tool_paths = NoneInstalled
    /\ tool_dirs = [t \in Tools |-> EmptyDir] /\ archives = {}

NameCheckedOps ==
    {"is_tool_installed", "get_tool_path", "uninstall_tool", "get_available_versions"}

\* C19: is_tool_installed, get_tool_path, uninstall_tool and
\* get_available_versions raise ValueError for a name that is not a managed
\* tool, and leave the path cache and the tools root as they were.
C19_UnknownToolRejected ==
    [][((\E op \in NameCheckedOps : Called(op)) /\ last'.tool \notin Tools)
          => /\ last'.exc = "ValueError"
             /\ UNCHANGED <<tool_paths, tool_dirs, archives>>]_vars

\* C19 witness: get_available_versions has raised ValueError for an unknown
\* name on a registry whose cache and tools root hold an installed tool.
C19_Witness ==
    /\ last.op = "get_available_versions" /\ last.tool \notin Tools
    /\ last.exc = "ValueError"
    /\ \E t \in Tools : tool_paths[t] = DirPath(t, "top")
                          /\ tool_dirs[subdir(t)].top # "absent"

\* C20: get_status raises nothing and reports every managed tool with an
\* 'installed' flag and a 'path'; the flag is true exactly when the path is
\* not None, and the path is then the one get_tool_path returns for the tool.
C20_StatusShape ==
    [][Called("get_status")
          => /\ last'.exc = "none"
             /\ DOMAIN last'.tools = Tools
             /\ \A t \in Tools :
                   /\ last'.tools[t].installed \in BOOLEAN
                   /\ last'.tools[t].installed <=> last'.tools[t].path # NoPath
                   /\ last'.tools[t].installed <=> get_tool_path(World, t).exc = "none"
                   /\ last'.tools[t].installed
                         => /\ last'.tools[t].path = get_tool_path(World, t).path
                            /\ last'.tools[t].path = get_tool_path(World, t).path']_vars

\* C20 witness: get_status has reported one tool as installed, with the path
\* of its file in the tools root, and the other as not installed.
C20_Witness ==
    \E t, u \in Tools :
        /\ last.op = "get_status"
        /\ last.tools[t].installed /\ last.tools[t].path = DirPath(t, "bin")
        /\ ~last.tools[u].installed /\ last.tools[u].path = NoPath

\* The machine strings _normalize_architecture knows, and the names it gives.
RecognizedMachines ==
    {"x86_64", "amd64", "i386", "i686", "aarch64", "arm64", "armv7l", "armv8l"}
NormalizedNames == {"x64", "x86", "arm64", "arm32"}

\* The seven platform keys of the allow-list, as <<system, architecture>>.
SevenKeys ==
    { <<"windows", "x64">>, <<"windows", "x86">>, <<"darwin", "x64">>,
      <<"darwin", "arm64">>, <<"linux", "x64">>, <<"linux", "arm64">>,
      <<"linux", "arm32">> }

\* C21: is_supported() is true exactly when the pair of the system and the
\* normalized architecture is one of the seven keys windows-x64, windows-x86,
\* darwin-x64, darwin-arm64, linux-x64, linux-arm64, linux-arm32; it is false
\* for every other pair: a supported system with an unrecognized architecture,
\* an unlisted pair such as darwin-x86 or windows-arm64, any other system.
C21_AllowList ==
    last.op = "is_platform_supported"
       => /\ last.value <=> <<system, _normalize_architecture(machine)>> \in SevenKeys
          /\ machine \notin RecognizedMachines \cup NormalizedNames => ~last.value
          /\ system \notin {"windows", "darwin", "linux"} => ~last.value
          /\ <<system, machine>> \in { <<"darwin", "i386">>, <<"darwin", "i686">>,
                                       <<"windows", "arm64">>, <<"windows", "aarch64">>,
                                       <<"windows", "armv7l">>, <<"darwin", "armv7l">> }
                => ~last.value

\* C21 witness: is_platform_supported has returned false on a host whose
\* system is a supported one and whose architecture is a recognized one, the
\* pair being none of the seven (windows-arm64).
C21_Witness ==
    /\ last.op = "is_platform_supported" /\ ~last.value
    /\ system = "windows" /\ machine = "arm64" /\ architecture = "arm64"

\* C22: _normalize_architecture maps x86_64 and amd64 to x64, aarch64, arm64
\* and armv8l to arm64, armv7l to arm32, i386 and i686 to x86, so every
\* recognized machine string to exactly one of x64, x86, arm64, arm32; every
\* other machine string is returned unchanged.
C22_Normalization ==
    last.op = "get_platform_info"
       => /\ last.info.machine = machine
          /\ machine \in {"x86_64", "amd64"} => last.info.architecture = "x64"
          /\ machine \in {"aarch64", "arm64", "armv8l"} => last.info.architecture = "arm64"
          /\ machine = "armv7l" => last.info.architecture = "arm32"
          /\ machine \in {"i386", "i686"} => last.info.architecture = "x86"
          /\ machine \in RecognizedMachines => last.info.architecture \in NormalizedNames
          /\ machine \notin RecognizedMachines => last.info.architecture = machine

\* C22 witness: get_platform_info has reported the architecture of a host
\* whose machine string is a recognized one that differs from its normalized
\* name (armv8l gives arm64).
C22_Witness ==
    /\ last.op = "get_platform_info"
    /\ machine = "armv8l" /\ last.info.architecture = "arm64"

\* The labels of a tool's versions in the catalog read in the current state,
\* one after the other as the catalog lists them; none for a tool it lacks.
LabelsInCatalogOrder(t, versions) ==
    IF t \notin DOMAIN CatalogRead THEN versions = << >>
    ELSE /\ Len(versions) = Len(CatalogRead[t])
         /\ \A i \in 1..Len(versions) : versions[i] = CatalogRead[t][i].version

\* C23 (as claimed): get_available_versions(tool) returns the version labels
\* the catalog holds for the tool, in catalog order, and returns the empty
\* sequence, raising nothing, for every unknown tool, be it unknown to the
\* catalog or to the registry.
C23_AvailableVersions ==
    [][\A t \in ToolNames :
          (Called("get_available_versions") /\ last'.tool = t /\ Readable)
             => /\ last'.exc = "none"
                /\ t \in Tools => LabelsInCatalogOrder(t, last'.versions)
                /\ t \notin Tools => last'.versions = << >>]_vars

\* C23 (amended): get_available_versions(name) raises ValueError for a name
\* that is not a managed tool.  For a managed tool it loads the catalog (an
\* error of open() other than a missing file propagates) and returns the
\* version labels the catalog holds for the tool, in catalog order, and the
\* empty sequence, raising nothing, when the catalog lacks the tool.
C23_AvailableVersionsOfManagedTools ==
    [][\A t \in ToolNames :
          (Called("get_available_versions") /\ last'.tool = t)
             => /\ t \notin Tools
                   => /\ last'.exc = "ValueError"
                      /\ UNCHANGED url_config
                /\ (t \in Tools /\ ~Readable)
                   => /\ last'.exc = "PermissionError"
                      /\ UNCHANGED url_config
                /\ (t \in Tools /\ Readable)
                   => /\ last'.exc = "none"
                      /\ LabelsInCatalogOrder(t, last'.versions)]_vars

\* C23 witness: get_available_versions has returned the two labels of a
\* catalog that lists the versions of the tool in an order that is not the
\* alphabetical one.
C23_Witness ==
    /\ last.op = "get_available_versions" /\ last.tool = "slc-cli"
    /\ last.exc = "none" /\ url_config = "partial"
    /\ last.versions = <<"v2025.05.07", "latest">>

\* C24: when download_file fails after it has begun to write the destination
\* file (the transport or a write fails in the middle of the stream), no
\* partial archive is left in the tools root when install_tool raises; and
\* after any install_tool call, successful or not, the tools root holds no
\* downloaded archive.
C24_PartialDownloadCleanup ==
    [][Called("install_tool")
          => /\ (last'.requested # {} /\ last'.downloaded = {})
                   => last'.filename \notin archives'
             /\ archives' = {}]_vars

\* The install_tool call of process p has created its archive and has not
\* yet extracted it: it is downloading, or about to extract.
NeedsArchive(p) == calls[p].pc \in {"write", "extract"}

\* The archive of p's call is in the tools root and holds p's data.
HasOwnArchive(p) ==
    /\ calls[p].file \in archives
    /\ \E h \in holder : h.name = calls[p].file /\ h.by = p

\* C25: two install_tool calls that run at the same time over one tools root,
\* on two registries, download to a scratch file each: no step of one call
\* overwrites or deletes the archive the other call is still downloading or
\* going to extract, and there is at most one archive on disk per call under
\* way.
C25_DedicatedScratchFile ==
    [][\A p \in Procs : \A q \in Procs \ {p} :
          /\ (calls'[p] # calls[p] /\ NeedsArchive(q) /\ HasOwnArchive(q))
                => HasOwnArchive(q)'
          /\ Cardinality(archives')
                <= Cardinality({r \in Procs : calls'[r].pc # "idle"})]_vars

\* install_tool(t, v) gets as far as its lower-level steps: the catalog can
\* be read, lists the tool, and v is one of the tool's versions (or none is
\* given and the tool has one).
VersionResolves(t, v) ==
    /\ Readable
    /\ t \in DOMAIN CatalogRead
    /\ IF v = NoVersion THEN Len(CatalogRead[t]) > 0
       ELSE \E i \in 1..Len(CatalogRead[t]) : CatalogRead[t][i].version = v

\* The exceptions of the steps below install_tool.
LowerLevelErrors ==
    {"PlatformNotSupportedError", "DownloadError", "InstallationError", "OSError"}

\* C26: on a supported platform, for a managed tool that is not installed,
\* every failure of a step below install_tool (resolving the URL for the
\* platform, download, extraction, an unsupported archive format, no
\* executable in the extracted files, a failing chmod) reaches the caller as
\* InstallationError that has the original exception as its context; no
\* DownloadError, PlatformNotSupportedError or OSError leaves the call.
C26_InstallErrorWrapping ==
    [][\A t \in Tools :
          (/\ Called("install_tool") /\ last'.tool = t
           /\ is_supported /\ t \in NotInstalled
           /\ VersionResolves(t, last'.version))
             => /\ last'.exc \in {"none", "InstallationError"}
                /\ last'.exc = "none" => last'.cause = "none"
                /\ last'.exc = "InstallationError"
                      => last'.cause \in LowerLevelErrors]_vars

\* C26 witness: install_tool has raised InstallationError whose context is
\* the PlatformNotSupportedError of get_tool_urls, on a host of the
\* allow-list for which the version lists no URL.
C26_Witness ==
    /\ last.op = "install_tool" /\ last.tool \in Tools
    /\ last.exc = "InstallationError"
    /\ last.cause = "PlatformNotSupportedError"
    /\ is_supported /\ last.requested = {}

\* What install_tool(t, v) reports to its caller in the current state when
\* the host behaves as e says: the exception, its context, the path returned.
Reported(t, v, e) ==
    LET report(r) == <<r.exc, r.cause, r.path>>
    IN  report(install_tool(World, t, v, e))

\* C27: a failing deletion of the archive never changes what is reported.
\* When a step after the download fails and the deletion fails too,
\* install_tool reports the error of the failed step, the one it reports when
\* the deletion succeeds; and when every step succeeds and the deletion
\* fails, it returns the path of the executable all the same.
C27_CleanupNeverMasks ==
    \A t \in Tools, v \in VersionInputs, e \in Envs :
        Reported(t, v, [e EXCEPT !.unlink_ok = FALSE])
            = Reported(t, v, [e EXCEPT !.unlink_ok = TRUE])

\* C27 witness: install_all_tools has installed the first tool and returned
\* its path although the archive of the tool could not be deleted and is
\* still in the tools root.
C27_Witness ==
    /\ last.op = "install_all_tools"
    /\ ToolOrder[1] \in last.extracted
    /\ last.installed_tools[ToolOrder[1]] # NoPath
    /\ \E f \in archives : f = get_tool_urls(url_config, ToolOrder[1], "latest").filename

\* The calls that go through _load_url_config.
LoadingOps == {"install_tool", "get_available_versions", "get_tool_urls"}

\* The step is a call in which _load_url_config opens the resource: no
\* catalog is held before it, and afterwards one is held or the error of
\* open() has left the call.
ReadsResource ==
    /\ \E op \in LoadingOps : Called(op)
    /\ url_config = "unloaded"
    /\ url_config' # "unloaded" \/ last'.exc = "PermissionError"

\* The registry has opened the resource before: it holds a catalog, or its
\* last call ended in the error of open().
HasRead ==
    \/ url_config # "unloaded"
    \/ last.op \in LoadingOps /\ last.exc = "PermissionError"

\* C28: over any sequence of install_tool, get_available_versions and
\* get_tool_urls calls on one registry the bundled resource is read at most
\* once, and every call after the first load works on the catalog that was
\* loaded then, whatever happens to the resource on disk afterwards.
C28_CatalogMemoization ==
    [][(HasRead /\ ~Called("__init__"))
          => /\ ~ReadsResource
             /\ url_config # "unloaded" => url_config' = url_config]_vars

\* The errors install_tool raises by design: a bad argument, a platform
\* outside the allow-list, a failure of the pipeline.
InstallErrors == {"ValueError", "PlatformNotSupportedError", "InstallationError"}

\* C29: install_tool(tool) without a version, for a managed tool that the
\* catalog lists and that is not installed, resolves the download URL under
\* the first version label of the tool in catalog order; whatever the shape
\* of the tool's version map (no label at all, say), the call ends in no
\* error other than those of the install pipeline.
C29_DefaultVersion ==
    [][\A t \in Tools :
          (/\ Called("install_tool") /\ last'.tool = t /\ last'.version = NoVersion
           /\ is_supported /\ Readable /\ t \in DOMAIN CatalogRead
           /\ t \in NotInstalled)
             => /\ last'.exc \in {"none"} \cup InstallErrors
                /\ Len(CatalogRead[t]) > 0
                      => LET urls == CatalogRead[t][1].urls
                             key == <<system, architecture>>
                         IN  IF key \in DOMAIN urls
                             THEN /\ last'.requested = {t}
                                  /\ last'.filename = urls[key][Len(urls[key])]
                             ELSE /\ last'.requested = {}
                                  /\ last'.exc = "InstallationError"
                                  /\ last'.cause = "PlatformNotSupportedError"]_vars

\* C30 (as claimed): if install_tool(tool) raises, at whichever step, the
\* path cache has the entries it had before the call and, in particular, no
\* entry for the tool.
C30_FailedInstallKeepsCache ==
    [][\A t \in ToolNames :
          (Called("install_tool") /\ last'.tool = t /\ last'.exc # "none")
             => /\ tool_paths' = tool_paths
                /\ t \in Tools => tool_paths'[t] = NoPath]_vars

\* C30 (amended): if install_tool(tool) raises, the path cache has exactly
\* the entries it had before the call; after a failure at a step of the
\* pipeline (URL resolution for the platform, download, extraction, locating
\* the executable, marking it executable) it has no entry for the tool, while
\* after a failure at the platform check or at the version resolution an
\* entry the tool had before is still there.  A call changes the cache only
\* when it succeeds, and then only the entry of its tool, which becomes the
\* path returned.
C30_CacheWrittenOnSuccessOnly ==
    [][\A t \in ToolNames :
          (Called("install_tool") /\ last'.tool = t)
             => /\ last'.exc # "none" => tool_paths' = tool_paths
                /\ (last'.exc # "none" /\ last'.cause # "none")
                      => tool_paths'[t] = NoPath
                /\ tool_paths' # tool_paths
                      => /\ last'.exc = "none"
                         /\ tool_paths' = [tool_paths EXCEPT ![t] = last'.path]]_vars

\* C30 witness: install_tool has failed after the archive was extracted and
\* the executable is on disk; the cache has no entry for the tool and still
\* has the entry of the other tool.
C30_Witness ==
    /\ last.op = "install_tool" /\ last.tool = "slc-cli"
    /\ last.exc = "InstallationError" /\ last.extracted = {"slc-cli"}
    /\ tool_dirs["slc-cli"].top # "absent"
    /\ tool_paths["slc-cli"] = NoPath
    /\ tool_paths["zap"] # NoPath

\* C31: uninstall_tool(t) leaves the path-cache entry of every other managed
\* tool as it was and deletes nothing outside the subdirectory of t under the
\* tools root; a different tool that was installed before the call is
\* installed afterwards, with the same path, its file still on disk.
C31_UninstallTouchesOwnTool ==
    [][\A t \in Tools :
          (Called("uninstall_tool") /\ last'.tool = t)
             => /\ \A u \in Tools \ {t} : tool_paths'[u] = tool_paths[u]
                /\ \A d \in DOMAIN tool_dirs :
                      d # subdir(t) => tool_dirs'[d] = tool_dirs[d]
                /\ archives' = archives /\ sys_path' = sys_path
                /\ \A u \in Tools \ {t} :
                      (_get_tool_path(World, u).path # NoPath
                         /\ FileExists(_get_tool_path(World, u).path))
                        => /\ is_tool_installed(World, u).value'
                           /\ _get_tool_path(World, u).path'
                                 = _get_tool_path(World, u).path
                           /\ FileExists(_get_tool_path(World, u).path)']_vars

\* C31 witness: uninstall_tool of the second tool has returned with every
\* deletion done and the tool's subdirectory gone; the first tool, installed
\* in its own subdirectory, still has its cache entry and its file.
C31_Witness ==
    /\ last.op = "uninstall_tool" /\ last.tool = ToolOrder[2]
    /\ last.exc = "none" /\ last.warnings = {}
    /\ ~tool_dirs[subdir(ToolOrder[2])].exists
    /\ tool_paths[ToolOrder[2]] = NoPath
    /\ tool_paths[ToolOrder[1]] = DirPath(ToolOrder[1], "top")
    /\ tool_dirs[subdir(ToolOrder[1])].top # "absent"

\* C32: while the path install_tool(tool) returned after a download is on
\* record (no uninstall_tool of the tool and no change of its subdirectory
\* by another process since), the path lies in the tool's own subdirectory and
\* names a file there, and every registry over the tools root, the one that
\* installed as much as one constructed later, answers from it:
\* is_tool_installed(tool) is true and get_tool_path(tool) returns that very
\* path, read from disk when the registry has nothing cached; install_tool
\* sends no request and, when it returns, returns that path; and an
\* uninstall_tool(tool) that ends without a warning leaves no file at the path.
C32_InstallPersists ==
    [][\A t \in Tools :
          downloaded_to[t] # NoPath
             => /\ downloaded_to[t][1] = subdir(t)
                /\ FileExists(downloaded_to[t])
                /\ (Called("is_tool_installed") /\ last'.tool = t)
                      => /\ last'.value /\ last'.path = downloaded_to[t]
                         /\ tool_paths[t] = NoPath => last'.probed
                /\ (Called("get_tool_path") /\ last'.tool = t)
                      => /\ last'.exc = "none" /\ last'.path = downloaded_to[t]
                         /\ tool_paths[t] = NoPath => last'.probed
                /\ (Called("install_tool") /\ last'.tool = t)
                      => /\ last'.requested = {}
                         /\ last'.exc = "none" => last'.path = downloaded_to[t]
                /\ (Called("uninstall_tool") /\ last'.tool = t
                      /\ last'.exc = "none" /\ last'.warnings = {})
                      => tool_dirs'[subdir(t)][downloaded_to[t][2]] = "absent"]_vars

\* A registry constructed after the download (it has installed nothing
\* itself) has resolved the downloaded path from disk, with no change by
\* another process in the whole run.
C32_Witness ==
    \E t \in Tools :
        /\ downloaded_to[t] # NoPath /\ installed_ret[t] = NoPath
        /\ last.op = "get_tool_path" /\ last.tool = t /\ last.exc = "none"
        /\ last.probed /\ last.path = downloaded_to[t]
        /\ tool_paths[t] = downloaded_to[t]
        /\ ext = 0
====
